---- MODULE Spec2Model ----
(***************************************************************************)
(* Model of the NBA player projection service: the calculation core        *)
(* (src/utils/calculations.js) and the HTTP handler that calls it           *)
(* (src/api/calculate-projection.js).                                       *)
(*                                                                         *)
(* JavaScript numbers are IEEE-754 binary64 values.  They are modelled     *)
(* exactly: a finite number is sign * m * 2^e with a 53-bit significand m, *)
(* every arithmetic operation rounds to nearest, ties to even.  TLC's      *)
(* integers are 32 bits wide, so significands are kept as little-endian    *)
(* sequences of 15-bit limbs.  The exponent range is not modelled: no      *)
(* value of the model comes near the overflow or the subnormal range.      *)
(***************************************************************************)
EXTENDS Integers, Sequences, FiniteSets

\* ------------------------------------------------------------------------
\* Natural numbers of arbitrary size: little-endian limb sequences, <<>> = 0
\* ------------------------------------------------------------------------

LimbBits == 3 * 5

Base == 2 ^ LimbBits

RECURSIVE NatNorm(_)
NatNorm(a) ==
  IF a = <<>> THEN <<>>
  ELSE IF a[Len(a)] = 0 THEN NatNorm(SubSeq(a, 1, Len(a) - 1))
  ELSE a

RECURSIVE NatFromInt(_)
NatFromInt(n) ==
  IF n = 0 THEN <<>> ELSE <<n % Base>> \o NatFromInt(n \div Base)

\* The value of a limb sequence known to be below 2^30.
NatToInt(a) ==
  IF a = <<>> THEN 0
  ELSE IF Len(a) = 1 THEN a[1]
  ELSE a[1] + Base * a[2]

RECURSIVE NatCmpFrom(_, _, _)
NatCmpFrom(a, b, i) ==
  IF i = 0 THEN 0
  ELSE IF a[i] > b[i] THEN 1
  ELSE IF a[i] < b[i] THEN -1
  ELSE NatCmpFrom(a, b, i - 1)

\* -1, 0, 1 as a < b, a = b, a > b (both normalised).
NatCmp(a, b) ==
  IF Len(a) > Len(b) THEN 1
  ELSE IF Len(a) < Len(b) THEN -1
  ELSE NatCmpFrom(a, b, Len(a))

Limb(a, i) == IF i <= Len(a) THEN a[i] ELSE 0

RECURSIVE NatAddFrom(_, _, _, _)
NatAddFrom(a, b, i, carry) ==
  IF i > Len(a) /\ i > Len(b)
  THEN IF carry = 0 THEN <<>> ELSE <<carry>>
  ELSE LET s == Limb(a, i) + Limb(b, i) + carry
       IN <<s % Base>> \o NatAddFrom(a, b, i + 1, s \div Base)

NatAdd(a, b) == NatAddFrom(a, b, 1, 0)

RECURSIVE NatSubFrom(_, _, _, _)
NatSubFrom(a, b, i, borrow) ==
  IF i > Len(a) THEN <<>>
  ELSE LET d == a[i] - Limb(b, i) - borrow
       IN IF d < 0 THEN <<d + Base>> \o NatSubFrom(a, b, i + 1, 1)
          ELSE <<d>> \o NatSubFrom(a, b, i + 1, 0)

\* a - b for a >= b.
NatSub(a, b) == NatNorm(NatSubFrom(a, b, 1, 0))

RECURSIVE NatMulSmallFrom(_, _, _, _)
NatMulSmallFrom(a, k, i, carry) ==
  IF i > Len(a)
  THEN IF carry = 0 THEN <<>> ELSE <<carry>>
  ELSE LET p == a[i] * k + carry
       IN <<p % Base>> \o NatMulSmallFrom(a, k, i + 1, p \div Base)

\* a * k for 0 <= k < Base.
NatMulSmall(a, k) == IF k = 0 THEN <<>> ELSE NatMulSmallFrom(a, k, 1, 0)

Zeros(n) == [i \in 1..n |-> 0]

RECURSIVE NatMulFrom(_, _, _)
NatMulFrom(a, b, j) ==
  IF j > Len(b) THEN <<>>
  ELSE NatAdd(IF b[j] = 0 THEN <<>> ELSE Zeros(j - 1) \o NatMulSmall(a, b[j]),
              NatMulFrom(a, b, j + 1))

NatMul(a, b) == IF a = <<>> \/ b = <<>> THEN <<>> ELSE NatMulFrom(a, b, 1)

RECURSIVE NatDivSmallFrom(_, _, _, _)
NatDivSmallFrom(a, k, i, rem) ==
  IF i = 0 THEN <<>>
  ELSE LET cur == rem * Base + a[i]
       IN NatDivSmallFrom(a, k, i - 1, cur % k) \o <<cur \div k>>

\* floor(a / k) for 0 < k < Base.
NatDivSmall(a, k) == NatNorm(NatDivSmallFrom(a, k, Len(a), 0))

RECURSIVE NatModSmallFrom(_, _, _, _)
NatModSmallFrom(a, k, i, rem) ==
  IF i = 0 THEN rem
  ELSE NatModSmallFrom(a, k, i - 1, (rem * Base + a[i]) % k)

NatModSmall(a, k) == NatModSmallFrom(a, k, Len(a), 0)

RECURSIVE IntBitLen(_)
IntBitLen(n) == IF n = 0 THEN 0 ELSE 1 + IntBitLen(n \div 2)

NatBitLen(a) ==
  IF a = <<>> THEN 0 ELSE LimbBits * (Len(a) - 1) + IntBitLen(a[Len(a)])

\* a * 2^n.
NatShl(a, n) ==
  IF a = <<>> THEN <<>>
  ELSE Zeros(n \div LimbBits) \o NatMulSmall(a, 2 ^ (n % LimbBits))

\* floor(a / 2^n).
NatShr(a, n) ==
  LET whole == n \div LimbBits
  IN IF whole >= Len(a) THEN <<>>
     ELSE NatDivSmall(SubSeq(a, whole + 1, Len(a)), 2 ^ (n % LimbBits))

NatOdd(a) == a # <<>> /\ a[1] % 2 = 1

\* ------------------------------------------------------------------------
\* JavaScript values.  k is the kind: "num" (finite number), "inf", "nan",
\* or a kind whose typeof is not 'number' ("undefined", "null", "string").
\* A finite number is (-1)^s * m * 2^e, m = 0 or 2^52 <= m < 2^53.
\* ------------------------------------------------------------------------

SigBits == 52 + 1

Val(k, s, m, e) == [k |-> k, s |-> s, m |-> m, e |-> e]

NaN == Val("nan", 0, <<>>, 0)

Inf(s) == Val("inf", s, <<>>, 0)

Undefined == Val("undefined", 0, <<>>, 0)

Null == Val("null", 0, <<>>, 0)

StringVal == Val("string", 0, <<>>, 0)

FZero(s) == Val("num", s, <<>>, 0)

\* typeof v === 'number'
IsNumberType(v) == v.k \in {"num", "inf", "nan"}

\* isNaN(v) for a value of number type.
IsNaN(v) == v.k = "nan"

\* isFinite(v) for a value of number type.
IsFinite(v) == v.k = "num"

IsZero(v) == v.k = "num" /\ v.m = <<>>

\* Round to nearest, ties to even: whether the significand q goes up, c being
\* the comparison of the bits cut off with half a unit of q.
RoundsUp(c, q) == c = 1 \/ (c = 0 /\ NatOdd(q))

\* The significand after rounding up may need one more bit.
FRenorm(s, q, e) ==
  IF NatBitLen(q) > SigBits THEN Val("num", s, NatShr(q, 1), e + 1) ELSE Val("num", s, q, e)

\* m of more than SigBits bits: q is m without its d lowest bits.
FRoundCut(s, m, e, d, q) ==
  IF RoundsUp(NatCmp(NatSub(m, NatShl(q, d)), NatShl(<<1>>, d - 1)), q)
  THEN FRenorm(s, NatAdd(q, <<1>>), e + d)
  ELSE Val("num", s, q, e + d)

FRoundLen(s, m, e, len) ==
  IF len <= SigBits THEN Val("num", s, NatShl(m, SigBits - len), e - (SigBits - len))
  ELSE FRoundCut(s, m, e, len - SigBits, NatShr(m, len - SigBits))

\* The binary64 value nearest to (-1)^s * m * 2^e, ties to even.
FRound(s, m, e) == IF m = <<>> THEN FZero(s) ELSE FRoundLen(s, m, e, NatBitLen(m))

FFromInt(n) == IF n < 0 THEN FRound(1, NatFromInt(-n), 0) ELSE FRound(0, NatFromInt(n), 0)

FNeg(x) == [x EXCEPT !.s = 1 - x.s]

\* x * y
FMul(x, y) ==
  IF x.k = "nan" \/ y.k = "nan" THEN NaN
  ELSE IF x.k = "inf" \/ y.k = "inf"
       THEN IF IsZero(x) \/ IsZero(y) THEN NaN ELSE Inf((x.s + y.s) % 2)
  ELSE FRound((x.s + y.s) % 2, NatMul(x.m, y.m), x.e + y.e)

RECURSIVE DivBits(_, _, _, _)
\* The first n bits of the binary expansion of r / b after those in bits, for
\* r < b, most significant first, followed by one more bit that is set when
\* the remainder is not zero.
DivBits(r, b, n, bits) ==
  IF Len(bits) >= n THEN Append(bits, IF r = <<>> THEN 0 ELSE 1)
  ELSE IF NatCmp(NatMulSmall(r, 2), b) >= 0
       THEN DivBits(NatSub(NatMulSmall(r, 2), b), b, n, Append(bits, 1))
       ELSE DivBits(NatMulSmall(r, 2), b, n, Append(bits, 0))

RECURSIVE LimbOfBits(_, _, _)
\* The limb made of the bits of weight 2^w .. 2^(w + k - 1) of a bit sequence.
LimbOfBits(bits, w, k) ==
  IF k = 0 THEN 0
  ELSE (IF Len(bits) - w >= 1 THEN bits[Len(bits) - w] ELSE 0)
       + 2 * LimbOfBits(bits, w + 1, k - 1)

BitsToNat(bits) ==
  NatNorm([j \in 1..((Len(bits) + LimbBits - 1) \div LimbBits) |->
             LimbOfBits(bits, LimbBits * (j - 1), LimbBits)])

\* The quotient of two significands of SigBits bits, to SigBits + 3 bits
\* and one more that is set when the division is inexact.
SigQuotient(a, b) ==
  IF NatCmp(a, b) >= 0
  THEN BitsToNat(DivBits(NatSub(a, b), b, SigBits + 3, <<1>>))
  ELSE BitsToNat(DivBits(a, b, SigBits + 3, <<0>>))

\* x / y
FDiv(x, y) ==
  IF x.k = "nan" \/ y.k = "nan" THEN NaN
  ELSE IF x.k = "inf" THEN (IF y.k = "inf" THEN NaN ELSE Inf((x.s + y.s) % 2))
  ELSE IF y.k = "inf" THEN FZero((x.s + y.s) % 2)
  ELSE IF IsZero(y) THEN (IF IsZero(x) THEN NaN ELSE Inf((x.s + y.s) % 2))
  ELSE IF IsZero(x) THEN FZero((x.s + y.s) % 2)
  ELSE FRound((x.s + y.s) % 2, SigQuotient(x.m, y.m), x.e - y.e - (SigBits + 3))

\* The sum of (-1)^bs * bm * 2^e and (-1)^ss * sm * 2^e.
FAddAligned(bs, bm, ss, sm, e) ==
  IF bs = ss THEN FRound(bs, NatAdd(bm, sm), e)
  ELSE IF NatCmp(bm, sm) >= 0 THEN FRound(bs, NatSub(bm, sm), e)
  ELSE FRound(ss, NatSub(sm, bm), e)

\* The sum of two finite numbers that are not zero, big.e >= small.e.  More
\* than 2 * SigBits + 2 bits below big, small only decides the direction of
\* the rounding.
FAddOrdered(big, small) ==
  IF big.e - small.e > 2 * SigBits + 2
  THEN FAddAligned(big.s, NatShl(big.m, 2 * SigBits + 2), small.s, <<1>>,
                   big.e - (2 * SigBits + 2))
  ELSE FAddAligned(big.s, NatShl(big.m, big.e - small.e), small.s, small.m, small.e)

\* x + y
FAdd(x, y) ==
  IF x.k = "nan" \/ y.k = "nan" THEN NaN
  ELSE IF x.k = "inf" THEN (IF y.k = "inf" /\ y.s # x.s THEN NaN ELSE x)
  ELSE IF y.k = "inf" THEN y
  ELSE IF IsZero(x) THEN (IF IsZero(y) THEN FZero(IF x.s = 1 /\ y.s = 1 THEN 1 ELSE 0) ELSE y)
  ELSE IF IsZero(y) THEN x
  ELSE IF x.e >= y.e THEN FAddOrdered(x, y)
  ELSE FAddOrdered(y, x)

\* x - y
FSub(x, y) == FAdd(x, FNeg(y))

\* -1, 0, 1 for two finite numbers, by magnitude.
MagCmp(x, y) ==
  IF IsZero(x) THEN (IF IsZero(y) THEN 0 ELSE -1)
  ELSE IF IsZero(y) THEN 1
  ELSE IF x.e > y.e THEN 1
  ELSE IF x.e < y.e THEN -1
  ELSE NatCmp(x.m, y.m)

\* Where a number that is not NaN lies: -2 and 2 the infinities, -1 and 1 the
\* negative and the positive numbers, 0 both zeros.
Rank(v) ==
  IF v.k = "inf" THEN (IF v.s = 1 THEN -2 ELSE 2)
  ELSE IF IsZero(v) THEN 0
  ELSE IF v.s = 1 THEN -1 ELSE 1

\* -1, 0, 1 as x < y, x = y, x > y, for x and y not NaN.
FCmp(x, y) ==
  IF Rank(x) > Rank(y) THEN 1
  ELSE IF Rank(x) < Rank(y) THEN -1
  ELSE IF Rank(x) = 1 THEN MagCmp(x, y)
  ELSE IF Rank(x) = -1 THEN MagCmp(y, x)
  ELSE 0

\* x < y, x <= y, x > y, x >= y, x === y: each false when an operand is NaN.
FLt(x, y) == x.k # "nan" /\ y.k # "nan" /\ FCmp(x, y) < 0

FLe(x, y) == x.k # "nan" /\ y.k # "nan" /\ FCmp(x, y) <= 0

FGt(x, y) == FLt(y, x)

FGe(x, y) == FLe(y, x)

FEq(x, y) == x.k # "nan" /\ y.k # "nan" /\ FCmp(x, y) = 0

\* ------------------------------------------------------------------------
\* Strings are sequences of one-character strings.
\* ------------------------------------------------------------------------

DigitChars == <<"0", "1", "2", "3", "4", "5", "6", "7", "8", "9">>

DigitSet == {DigitChars[d] : d \in 1..10}

DigitVal(c) == (CHOOSE d \in 1..10 : DigitChars[d] = c) - 1

InfinityChars == <<"I", "n", "f", "i", "n", "i", "t", "y">>

RECURSIVE Pow10(_)
Pow10(n) == IF n = 0 THEN <<1>> ELSE NatMulSmall(Pow10(n - 1), 10)

RECURSIVE NatToDigits(_)
\* The decimal digits of a, most significant first; none for 0.
NatToDigits(a) ==
  IF a = <<>> THEN <<>>
  ELSE NatToDigits(NatDivSmall(a, 10)) \o <<DigitChars[NatModSmall(a, 10) + 1]>>

\* floor(a / 2^d + 1/2): q is floor(a / 2^d).
HalfUp(a, d, q) ==
  IF NatCmp(NatSub(a, NatShl(q, d)), NatShl(<<1>>, d - 1)) >= 0 THEN NatAdd(q, <<1>>) ELSE q

\* The integer nearest to a * 2^e, the larger one on a tie.
NearestInt(a, e) == IF e >= 0 THEN NatShl(a, e) ELSE HalfUp(a, -e, NatShr(a, -e))

\* Digits with zeros put before them up to a length of n.
PadZeros(ds, n) == IF Len(ds) < n THEN [i \in 1..(n - Len(ds)) |-> "0"] \o ds ELSE ds

\* The digits ds with a point before the last f of them.
PointBefore(ds, f) ==
  IF f = 0 THEN ds
  ELSE SubSeq(ds, 1, Len(ds) - f) \o <<".">> \o SubSeq(ds, Len(ds) - f + 1, Len(ds))

\* Number.prototype.toFixed(f) of a value of number type, |x| < 10^21:
\* the integer n with n / 10^f nearest to |x|, the larger n on a tie,
\* written with f digits after the point.
ToFixed(x, f) ==
  IF x.k = "nan" THEN <<"N", "a", "N">>
  ELSE IF x.k = "inf" THEN (IF x.s = 1 THEN <<"-">> ELSE <<>>) \o InfinityChars
  ELSE (IF x.s = 1 /\ ~IsZero(x) THEN <<"-">> ELSE <<>>)
       \o PointBefore(PadZeros(NatToDigits(NearestInt(NatMul(x.m, Pow10(f)), x.e)), f + 1), f)

RECURSIVE SkipWhile(_, _, _)
\* The first index >= i of str whose character is not in set, Len(str) + 1 if none.
SkipWhile(str, i, set) ==
  IF i <= Len(str) /\ str[i] \in set THEN SkipWhile(str, i + 1, set) ELSE i

RECURSIVE DigitsToNat(_, _, _)
\* The number written by the digits of str at the indices i..j, skipping a point.
DigitsToNat(str, i, j) ==
  IF j < i THEN <<>>
  ELSE IF str[j] = "." THEN DigitsToNat(str, i, j - 1)
  ELSE NatAdd(NatMulSmall(DigitsToNat(str, i, j - 1), 10), NatFromInt(DigitVal(str[j])))

HasCharAt(str, i, set) == i <= Len(str) /\ str[i] \in set

\* (-1)^s * digits * 10^scale.  The literals of the model have at most 15
\* significant digits and a scale within +-22, for which the correctly rounded
\* value is the product or the quotient of two exact numbers.
Scaled(s, digits, scale) ==
  IF scale >= 0 THEN FRound(s, NatMul(digits, Pow10(scale)), 0)
  ELSE FDiv(FRound(s, digits, 0), FRound(0, Pow10(-scale), 0))

\* The exponent part that starts at the index i of str ("e", an optional sign
\* at the index i + 1, digits from e1 up to eEnd - 1), 0 when there is none.
ExponentAt(str, i, e1, eEnd) ==
  IF ~HasCharAt(str, i, {"e", "E"}) \/ eEnd = e1 THEN 0
  ELSE IF str[i + 1] = "-" THEN -NatToInt(DigitsToNat(str, e1, eEnd - 1))
  ELSE NatToInt(DigitsToNat(str, e1, eEnd - 1))

ExponentFrom(str, i, e1) == ExponentAt(str, i, e1, SkipWhile(str, e1, DigitSet))

\* The decimal literal with sign s whose digits start at the index i1 of str,
\* the integer part ending before intEnd and the fraction before fracEnd.
ParseDigits(str, s, i1, intEnd, fracEnd) ==
  IF fracEnd - i1 = 0 \/ (fracEnd - i1 = 1 /\ intEnd < fracEnd) THEN NaN
  ELSE Scaled(s, DigitsToNat(str, i1, fracEnd - 1),
              ExponentFrom(str, fracEnd,
                           IF HasCharAt(str, fracEnd + 1, {"+", "-"})
                           THEN fracEnd + 2 ELSE fracEnd + 1)
              - (IF intEnd < fracEnd THEN fracEnd - intEnd - 1 ELSE 0))

ParseFraction(str, s, i1, intEnd) ==
  ParseDigits(str, s, i1, intEnd,
              IF HasCharAt(str, intEnd, {"."}) THEN SkipWhile(str, intEnd + 1, DigitSet)
              ELSE intEnd)

\* The literal that starts at the index i1 of str, after the sign s.
ParseUnsigned(str, s, i1) ==
  IF i1 + 7 <= Len(str) /\ SubSeq(str, i1, i1 + 7) = InfinityChars THEN Inf(s)
  ELSE ParseFraction(str, s, i1, SkipWhile(str, i1, DigitSet))

ParseSigned(str, i0) ==
  IF HasCharAt(str, i0, {"+", "-"})
  THEN ParseUnsigned(str, IF str[i0] = "-" THEN 1 ELSE 0, i0 + 1)
  ELSE ParseUnsigned(str, 0, i0)

\* parseFloat(str) of a string: leading white space is skipped, then the longest
\* prefix that is a decimal literal (sign, Infinity or digits with an optional
\* point and an optional exponent) is converted, whatever follows it is ignored;
\* NaN when there is no such prefix.
ParseFloat(str) == ParseSigned(str, SkipWhile(str, 1, {" "}))

\* A number of the reference data written as a decimal literal: n / 10^f.
Dec(n, f) == FDiv(FFromInt(n), FRound(0, Pow10(f), 0))

\* ------------------------------------------------------------------------
\* src/utils/calculations.js
\* ------------------------------------------------------------------------

One == FFromInt(1)

\* A variant that divides by a league average of 0.
calculatePaceAdjustment_DividesByZero(opponentPace, leagueAvgPace) ==
  IF ~IsNumberType(opponentPace) \/ ~IsNumberType(leagueAvgPace)
     \/ ~IsFinite(opponentPace) \/ ~IsFinite(leagueAvgPace)
  THEN One
  ELSE FDiv(opponentPace, leagueAvgPace)

\* calculatePaceAdjustment(opponentPace, leagueAvgPace)
calculatePaceAdjustment(opponentPace, leagueAvgPace) ==
  IF ~IsNumberType(opponentPace) \/ ~IsNumberType(leagueAvgPace)
     \/ ~IsFinite(opponentPace) \/ ~IsFinite(leagueAvgPace) \/ IsZero(leagueAvgPace)
  THEN One
  ELSE FDiv(opponentPace, leagueAvgPace)

\* A variant that scales the attempts per 48 minutes.
calculateProjectedFGA_Per48(fga36, projectedMinutes, usageAdjustment, dvpFactor, paceAdjustment) ==
  FMul(FMul(FMul(FMul(fga36, FDiv(projectedMinutes, FFromInt(48))), usageAdjustment),
            dvpFactor), paceAdjustment)

\* A variant that leaves the minutes out.
calculateProjectedFGA_NoMinutes(fga36, projectedMinutes, usageAdjustment, dvpFactor, paceAdjustment) ==
  FMul(FMul(FMul(fga36, usageAdjustment), dvpFactor), paceAdjustment)

\* calculateProjectedFGA(fga36, projectedMinutes, usageAdjustment, dvpFactor, paceAdjustment)
calculateProjectedFGA(fga36, projectedMinutes, usageAdjustment, dvpFactor, paceAdjustment) ==
  FMul(FMul(FMul(FMul(fga36, FDiv(projectedMinutes, FFromInt(36))), usageAdjustment),
            dvpFactor), paceAdjustment)

\* A variant that applies the usage twice.
calculateProjectedFTA_UsageTwice(fta36, projectedMinutes, usageAdjustment, dvpFactor, paceAdjustment) ==
  FMul(FMul(FMul(FMul(FMul(fta36, FDiv(projectedMinutes, FFromInt(36))), usageAdjustment),
                 usageAdjustment), dvpFactor), paceAdjustment)

\* calculateProjectedFTA(fta36, projectedMinutes, usageAdjustment, dvpFactor, paceAdjustment)
calculateProjectedFTA(fta36, projectedMinutes, usageAdjustment, dvpFactor, paceAdjustment) ==
  FMul(FMul(FMul(FMul(fta36, FDiv(projectedMinutes, FFromInt(36))), usageAdjustment),
            dvpFactor), paceAdjustment)

\* calculateTwoPointPoints(projectedFGA, threePointAttemptRate, twoPointPercentage)
calculateTwoPointPoints(projectedFGA, threePointAttemptRate, twoPointPercentage) ==
  LET twoPointAttempts == FMul(projectedFGA, FSub(One, threePointAttemptRate))
  IN FMul(FMul(twoPointAttempts, twoPointPercentage), FFromInt(2))

\* A variant that counts a made three as two points.
calculateThreePointPoints_WorthTwo(projectedFGA, threePointAttemptRate, threePointPercentage) ==
  FMul(FMul(FMul(projectedFGA, threePointAttemptRate), threePointPercentage), FFromInt(2))

\* calculateThreePointPoints(projectedFGA, threePointAttemptRate, threePointPercentage)
calculateThreePointPoints(projectedFGA, threePointAttemptRate, threePointPercentage) ==
  LET threePointAttempts == FMul(projectedFGA, threePointAttemptRate)
  IN FMul(FMul(threePointAttempts, threePointPercentage), FFromInt(3))

\* calculateFreeThrowPoints(projectedFTA, freeThrowPercentage)
calculateFreeThrowPoints(projectedFTA, freeThrowPercentage) ==
  FMul(projectedFTA, freeThrowPercentage)

\* A raw game parameter is a string or is missing (undefined).
RawString(chars) == [t |-> "string", chars |-> chars]

RawUndefined == [t |-> "undefined", chars |-> <<>>]

\* String(value), as parseFloat and a template literal apply it.
StringOf(value) ==
  IF value.t = "undefined" THEN <<"u", "n", "d", "e", "f", "i", "n", "e", "d">>
  ELSE value.chars

\* An Error and its message: `${field}${text}"${received}"` when quoted,
\* `${field}${text}` otherwise, behind the prefix the catch block puts first.
Error(field, text, quoted, received) ==
  [prefix |-> "", field |-> field, text |-> text, quoted |-> quoted, received |-> received]

NoError == Error("", "", FALSE, <<>>)

Returns(value) == [threw |-> FALSE, value |-> value, error |-> NoError]

Throws(error) == [threw |-> TRUE, value |-> Undefined, error |-> error]

\* The checks of validateAndParseNumber on parsedValue = parseFloat(value).
ValidateParsed(parsedValue, value, fieldName, allowZero) ==
  IF IsNaN(parsedValue)
  THEN Throws(Error(fieldName, " is not a valid number. Received: ", TRUE, StringOf(value)))
  ELSE IF ~IsFinite(parsedValue)
  THEN Throws(Error(fieldName, " is infinite or too large/small. Received: ", TRUE,
                    StringOf(value)))
  ELSE IF ~allowZero /\ FLe(parsedValue, FZero(0))
  THEN Throws(Error(fieldName, " must be greater than 0. Received: ", TRUE, StringOf(value)))
  ELSE IF FLt(parsedValue, FZero(0))
  THEN Throws(Error(fieldName, " cannot be negative. Received: ", TRUE, StringOf(value)))
  ELSE Returns(parsedValue)

\* validateAndParseNumber(value, fieldName, allowZero = false)
validateAndParseNumber(value, fieldName, allowZero) ==
  ValidateParsed(ParseFloat(StringOf(value)), value, fieldName, allowZero)

requiredFields ==
  <<"FGA_36", "FTA_36", "two_point_percentage", "three_point_percentage",
    "free_throw_percentage", "three_point_attempt_rate">>

\* A variant that refuses a statistic of 0.
validatePlayerData_Positive(playerData) ==
  \A i \in 1..Len(requiredFields) :
     IsNumberType(playerData[requiredFields[i]])
     /\ ~IsNaN(playerData[requiredFields[i]])
     /\ FGt(playerData[requiredFields[i]], FZero(0))

\* A variant that refuses a three-point attempt rate above 1.
validatePlayerData_RateAtMostOne(playerData) ==
  /\ \A i \in 1..Len(requiredFields) :
        IsNumberType(playerData[requiredFields[i]])
        /\ ~IsNaN(playerData[requiredFields[i]])
        /\ FGe(playerData[requiredFields[i]], FZero(0))
  /\ FLe(playerData.three_point_attempt_rate, One)

\* validatePlayerData(playerData)
validatePlayerData(playerData) ==
  \A i \in 1..Len(requiredFields) :
     LET value == playerData[requiredFields[i]]
     IN IsNumberType(value) /\ ~IsNaN(value) /\ FGe(value, FZero(0))

\* A variant that lets a factor of 0 through.
AdjustmentInvalid_ZeroAllowed(factor) ==
  ~IsNumberType(factor) \/ ~IsFinite(factor) \/ FLt(factor, FZero(0))

\* The test of the adjustment factors in calculateTotalProjectedPoints (STEP 3).
AdjustmentInvalid(factor) ==
  ~IsNumberType(factor) \/ ~IsFinite(factor) \/ FLe(factor, FZero(0))

AdjustmentsInvalid(adjustments) ==
  \/ AdjustmentInvalid(adjustments.paceAdjustment)
  \/ AdjustmentInvalid(adjustments.dvpFgaFactor)
  \/ AdjustmentInvalid(adjustments.dvpFtaFactor)

\* A variant that adds the free throw points to the total twice.
Calculations_FreeThrowsTwice(projectedFGA, projectedFTA, twoPointPoints, threePointPoints, freeThrowPoints) ==
  [projectedFGA |-> projectedFGA,
   projectedFTA |-> projectedFTA,
   twoPointPoints |-> twoPointPoints,
   threePointPoints |-> threePointPoints,
   freeThrowPoints |-> freeThrowPoints,
   totalProjectedPoints |->
     FAdd(FAdd(FAdd(twoPointPoints, threePointPoints), freeThrowPoints), freeThrowPoints)]

\* const totalProjectedPoints = twoPointPoints + threePointPoints + freeThrowPoints
Calculations(projectedFGA, projectedFTA, twoPointPoints, threePointPoints, freeThrowPoints) ==
  [projectedFGA |-> projectedFGA,
   projectedFTA |-> projectedFTA,
   twoPointPoints |-> twoPointPoints,
   threePointPoints |-> threePointPoints,
   freeThrowPoints |-> freeThrowPoints,
   totalProjectedPoints |-> FAdd(FAdd(twoPointPoints, threePointPoints), freeThrowPoints)]

\* The points, from the projected attempts.
PointsOf(playerData, projectedFGA, projectedFTA) ==
  Calculations(projectedFGA, projectedFTA,
    calculateTwoPointPoints(projectedFGA, playerData.three_point_attempt_rate,
                            playerData.two_point_percentage),
    calculateThreePointPoints(projectedFGA, playerData.three_point_attempt_rate,
                              playerData.three_point_percentage),
    calculateFreeThrowPoints(projectedFTA, playerData.free_throw_percentage))

\* A variant that gives each kind of attempt the other's defense factor.
PerformCalculations_FactorsSwapped(playerData, projectedMinutes, usageAdjustment, adjustments) ==
  PointsOf(playerData,
    calculateProjectedFGA(playerData.FGA_36, projectedMinutes, usageAdjustment,
                          adjustments.dvpFtaFactor, adjustments.paceAdjustment),
    calculateProjectedFTA(playerData.FTA_36, projectedMinutes, usageAdjustment,
                          adjustments.dvpFgaFactor, adjustments.paceAdjustment))

\* STEP 4 of calculateTotalProjectedPoints: the unrounded values.
PerformCalculations(playerData, projectedMinutes, usageAdjustment, adjustments) ==
  PointsOf(playerData,
    calculateProjectedFGA(playerData.FGA_36, projectedMinutes, usageAdjustment,
                          adjustments.dvpFgaFactor, adjustments.paceAdjustment),
    calculateProjectedFTA(playerData.FTA_36, projectedMinutes, usageAdjustment,
                          adjustments.dvpFtaFactor, adjustments.paceAdjustment))

\* parseFloat(x.toFixed(digits))
RoundTo(x, digits) == ParseFloat(ToFixed(x, digits))

\* A variant that splits the rounded field goal attempts into twos and threes.
RoundedResults_FromRounded(playerData, adjustments, c) ==
  [projectedPoints |-> RoundTo(c.totalProjectedPoints, 1),
   breakdown |->
     [twoPointers |-> RoundTo(c.twoPointPoints, 1),
      threePointers |-> RoundTo(c.threePointPoints, 1),
      freeThrows |-> RoundTo(c.freeThrowPoints, 1),
      projectedFGA |-> RoundTo(c.projectedFGA, 1),
      projectedFTA |-> RoundTo(c.projectedFTA, 1),
      paceAdjustment |-> RoundTo(adjustments.paceAdjustment, 2)],
   attempts |->
     [twoPointAttempts |->
        RoundTo(FMul(RoundTo(c.projectedFGA, 1),
                     FSub(One, playerData.three_point_attempt_rate)), 1),
      threePointAttempts |->
        RoundTo(FMul(RoundTo(c.projectedFGA, 1), playerData.three_point_attempt_rate), 1),
      freeThrowAttempts |-> RoundTo(c.projectedFTA, 1)]]

\* STEP 5 of calculateTotalProjectedPoints: the object returned.
RoundedResults(playerData, adjustments, c) ==
  [projectedPoints |-> RoundTo(c.totalProjectedPoints, 1),
   breakdown |->
     [twoPointers |-> RoundTo(c.twoPointPoints, 1),
      threePointers |-> RoundTo(c.threePointPoints, 1),
      freeThrows |-> RoundTo(c.freeThrowPoints, 1),
      projectedFGA |-> RoundTo(c.projectedFGA, 1),
      projectedFTA |-> RoundTo(c.projectedFTA, 1),
      paceAdjustment |-> RoundTo(adjustments.paceAdjustment, 2)],
   attempts |->
     [twoPointAttempts |->
        RoundTo(FMul(c.projectedFGA, FSub(One, playerData.three_point_attempt_rate)), 1),
      threePointAttempts |->
        RoundTo(FMul(c.projectedFGA, playerData.three_point_attempt_rate), 1),
      freeThrowAttempts |-> RoundTo(c.projectedFTA, 1)]]

\* The catch block of calculateTotalProjectedPoints: the error thrown again
\* with its message behind 'Calculation failed: '.
Rethrow(error) == [error EXCEPT !.prefix = "Calculation failed: "]

NoCalculations ==
  [projectedFGA |-> Undefined, projectedFTA |-> Undefined, twoPointPoints |-> Undefined,
   threePointPoints |-> Undefined, freeThrowPoints |-> Undefined,
   totalProjectedPoints |-> Undefined]

NoResults == RoundedResults([three_point_attempt_rate |-> NaN],
                            [paceAdjustment |-> NaN],
                            [NoCalculations EXCEPT !.projectedFGA = NaN, !.projectedFTA = NaN,
                               !.twoPointPoints = NaN, !.threePointPoints = NaN,
                               !.freeThrowPoints = NaN, !.totalProjectedPoints = NaN])

\* How a call of calculateTotalProjectedPoints ended.
Pending == [status |-> "pending", result |-> NoResults, error |-> NoError]

Returned(result) == [status |-> "returned", result |-> result, error |-> NoError]

Thrown(error) == [status |-> "thrown", result |-> NoResults, error |-> error]

\* calculateTotalProjectedPoints once both game parameters went through
\* validateAndParseNumber.
AfterParsing(playerData, adjustments, minutes, usage) ==
  IF minutes.threw THEN Thrown(Rethrow(minutes.error))
  ELSE IF usage.threw THEN Thrown(Rethrow(usage.error))
  ELSE IF FGt(minutes.value, FFromInt(48))
  THEN Thrown(Rethrow(Error("Projected Minutes", " cannot exceed 48.", FALSE, <<>>)))
  ELSE IF FGt(usage.value, FFromInt(5))
  THEN Thrown(Rethrow(Error("Usage Adjustment", " cannot exceed 5.0.", FALSE, <<>>)))
  ELSE IF ~validatePlayerData(playerData)
  THEN Thrown(Rethrow(Error("",
         "Missing or invalid core player statistics required for calculation.",
         FALSE, <<>>)))
  ELSE IF AdjustmentsInvalid(adjustments)
  THEN Thrown(Rethrow(Error("", "Invalid or missing adjustment factors.", FALSE, <<>>)))
  ELSE Returned(RoundedResults(playerData, adjustments,
         PerformCalculations(playerData, minutes.value, usage.value, adjustments)))

\* calculateTotalProjectedPoints(playerData, rawGameParams, adjustments)
calculateTotalProjectedPoints(playerData, rawGameParams, adjustments) ==
  AfterParsing(playerData, adjustments,
    validateAndParseNumber(rawGameParams.projectedMinutes, "Projected Minutes", FALSE),
    validateAndParseNumber(rawGameParams.usageAdjustment, "Usage Adjustment", FALSE))

\* ------------------------------------------------------------------------
\* The inputs of the model
\* ------------------------------------------------------------------------

\* The longest generated parameter string.
MaxStrLen == 3

\* All strings of at most n characters over an alphabet.
Strings(alphabet, n) == UNION {[1..k -> alphabet] : k \in 0..n}

MinutesAlphabet == {"4", "8", ".", "-", "a"}

UsageAlphabet == {"0", "1", "5", ".", "a"}

NamedMinutes ==
  {<<"0">>, <<"4", "9">>, <<"a", "b", "c">>, <<>>, <<"-", "5">>, <<"-", "0", ".", "5">>,
   <<"4", "8">>, <<"3", "2">>, <<"3", "6">>, <<"2", "8", ".", "5">>,
   <<"3", "2", "a", "b", "c">>, <<" ", "3", "2">>, <<"4", "8", ".", "0", "1">>,
   <<"1", "e", "1">>, <<"I", "n", "f", "i", "n", "i", "t", "y">>}

NamedUsage ==
  {<<"0">>, <<"5", ".", "0", "1">>, <<"-", "1">>, <<"5">>, <<"1">>, <<"1", ".", "0">>,
   <<"1", ".", "1">>, <<"0", ".", "8", "5">>, <<"a", "b", "c">>, <<>>,
   <<"1", ".", "2", "x">>, <<"I", "n", "f", "i", "n", "i", "t", "y">>}

MinutesValues ==
  {RawString(c) : c \in NamedMinutes \cup Strings(MinutesAlphabet, MaxStrLen)}
  \cup {RawUndefined}

UsageValues ==
  {RawString(c) : c \in NamedUsage \cup Strings(UsageAlphabet, MaxStrLen)}
  \cup {RawUndefined}

Str32 == RawString(<<"3", "2">>)

Str36 == RawString(<<"3", "6">>)

Str1 == RawString(<<"1">>)

Str1p0 == RawString(<<"1", ".", "0">>)

GameParams(minutes, usage) == [projectedMinutes |-> minutes, usageAdjustment |-> usage]

Player(fga36, fta36, twoPct, threePct, ftPct, threeRate) ==
  [FGA_36 |-> fga36, FTA_36 |-> fta36, two_point_percentage |-> twoPct,
   three_point_percentage |-> threePct, free_throw_percentage |-> ftPct,
   three_point_attempt_rate |-> threeRate]

ExamplePlayer == Player(Dec(18, 0), Dec(5, 0), Dec(55, 2), Dec(38, 2), Dec(85, 2), Dec(4, 1))

\* A player whose attempts and points are the per-36 rates themselves at 36
\* minutes, usage 1 and neutral factors.
RatePlayer(fga36, fta36) == Player(fga36, fta36, Dec(5, 1), One, One, FZero(0))

\* A player whose points from twos, threes and free throws at 36 minutes,
\* usage 1 and neutral factors are 0.05, 0.15 and 0.75 as doubles.
TiePlayer == Player(One, Dec(75, 2), Dec(5, 2), Dec(1, 1), One, Dec(5, 1))

\* Values a field of the reference data can hold.
NumberValues ==
  {FZero(0), One, Dec(5, 1), Dec(15, 1), Dec(2445, 2), Dec(24449999, 6), Dec(1235, 2),
   Dec(1234999, 5), Dec(1005, 3), Dec(95, 2)}

BadValues == {NaN, Dec(-1, 0), Dec(-5, 2), Undefined, Null, StringVal}

FieldValues == NumberValues \cup BadValues \cup {Inf(0), Inf(1)}

FieldNames == {requiredFields[i] : i \in 1..Len(requiredFields)}

Players ==
  {ExamplePlayer}
  \cup {[ExamplePlayer EXCEPT ![f] = v] : f \in FieldNames, v \in FieldValues}
  \cup {RatePlayer(a, b) : a \in NumberValues, b \in {FZero(0), Dec(2445, 2), Dec(1235, 2)}}
  \cup {[ExamplePlayer EXCEPT !.FGA_36 = v, !.free_throw_percentage = w] :
          v \in BadValues, w \in BadValues}
  \cup {[ExamplePlayer EXCEPT !.FGA_36 = FZero(0), !.three_point_attempt_rate = Dec(15, 1)]}
  \cup {TiePlayer}

Adjustments(pace, fga, fta) ==
  [paceAdjustment |-> pace, dvpFgaFactor |-> fga, dvpFtaFactor |-> fta]

NeutralAdjustments == Adjustments(One, One, One)

AdjustmentNames == {"paceAdjustment", "dvpFgaFactor", "dvpFtaFactor"}

AdjustmentSets ==
  {NeutralAdjustments}
  \cup {[NeutralAdjustments EXCEPT ![f] = v] : f \in AdjustmentNames, v \in FieldValues}
  \cup {Adjustments(Dec(102, 2), Dec(95, 2), Dec(108, 2))}

\* The calls of calculateTotalProjectedPoints the model makes.
Calls ==
  {<<ExamplePlayer, GameParams(m, RawString(<<"1", ".", "0">>)), NeutralAdjustments>> :
      m \in MinutesValues}
  \cup {<<ExamplePlayer, GameParams(RawString(<<"3", "2">>), u), NeutralAdjustments>> :
      u \in UsageValues}
  \cup {<<ExamplePlayer, GameParams(RawString(m), RawString(u)), NeutralAdjustments>> :
      m \in NamedMinutes, u \in NamedUsage}
  \cup {<<p, GameParams(RawString(m), RawString(<<"1">>)), NeutralAdjustments>> :
      p \in Players, m \in {<<"3", "6">>, <<"3", "2">>}}
  \cup {<<p, GameParams(RawString(<<"3", "6">>), RawString(<<"1">>)), a>> :
      p \in {ExamplePlayer, RatePlayer(Dec(2445, 2), Dec(1235, 2))}, a \in AdjustmentSets}
  \cup {<<p, GameParams(RawString(<<"2", "8", ".", "5">>), RawString(<<"1", ".", "1">>)),
          Adjustments(Dec(102, 2), Dec(95, 2), Dec(108, 2))>> : p \in Players}
  \cup {<<p, GameParams(RawString(m), RawString(u)), a>> :
          p \in {ExamplePlayer, [ExamplePlayer EXCEPT !.FTA_36 = NaN]},
          m \in {<<"3", "2">>, <<"4", "9">>, <<"a", "b", "c">>},
          u \in {<<"1">>, <<"5", ".", "0", "1">>, <<"0">>},
          a \in {NeutralAdjustments, [NeutralAdjustments EXCEPT !.dvpFgaFactor = FZero(0)]}}

\* The arguments of the calls of calculatePaceAdjustment the model makes.
PaceValues ==
  {FZero(0), FZero(1), One, Dec(100, 0), Dec(985, 1), Dec(1023, 1), Dec(-98, 0), NaN,
   Inf(0), Inf(1), Undefined, Null, StringVal}

\* ------------------------------------------------------------------------
\* State
\* ------------------------------------------------------------------------

VARIABLES
  playerData,     \* calculateTotalProjectedPoints: the arguments of the call
  rawGameParams,
  adjustments,
  pc,             \* the statement of calculateTotalProjectedPoints to run next
  locals,         \* its local variables projectedMinutes and usageAdjustment
  calculations,   \* the unrounded values of STEP 4
  outcome,        \* what the call returned or threw
  paceCall,       \* a call of calculatePaceAdjustment: arguments and result
  history,        \* a sequence of calls: the records the current call was given,
                  \* and the records and outcome the call before it ended with
  req,            \* handler: the request (method, url, query)
  files,          \* handler: what the three JSON files of the data directory hold
  hpc,            \* handler: the statement of the handler to run next
  found,          \* handler: its local variables
  res,            \* handler: the response (headers, status, body, how many were sent)
  fields,         \* page: the values of the form's inputs
  items,          \* page: the text of the li elements of #autocompleteResults
  show,           \* page: #autocompleteResults carries the class 'show'
  selected,       \* page: the indices of the li elements that carry 'selected'
  selectedIndex,  \* page: let selectedIndex
  display,        \* page: style.display of #result, #error, #buttonText and
                  \* #loadingSpinner, the button's disabled, and the invocation
                  \* that #result and #error show the outcome of
  invocations     \* page: the invocations of calculateProjection, each at its await

handlerVars == <<req, files, hpc, found, res>>

pageVars == <<fields, items, show, selected, selectedIndex, display, invocations>>

vars ==
  <<playerData, rawGameParams, adjustments, pc, locals, calculations, outcome, paceCall,
    history, req, files, hpc, found, res, fields, items, show, selected, selectedIndex,
    display, invocations>>

\* No request is being handled.
HandlerIdle ==
  /\ req = [method |-> "none"]
  /\ files = [loads |-> FALSE]
  /\ hpc = "idle"
  /\ found = [none |-> TRUE]
  /\ res = [sent |-> 0]

NoLocals == [projectedMinutes |-> Undefined, usageAdjustment |-> Undefined]

NoPaceCall == [state |-> "none", opponentPace |-> Undefined, leagueAvgPace |-> Undefined,
               result |-> Undefined]

\* No call came before, and the model does not follow a sequence of calls.
NoPrevious == [defined |-> FALSE, args |-> <<>>, outcome |-> Pending]

NoHistory == [entered |-> <<>>, previous |-> NoPrevious]

\* The inline styles and the value attributes of the markup, once the script
\* has run: no list item, nothing selected, no invocation.
PageLoaded ==
  /\ fields = [playerName |-> <<"A", "l">>, opponentTeam |-> <<>>,
               projectedMinutes |-> <<"3", "2">>, usageAdjustment |-> <<"1", ".", "0", "0">>]
  /\ items = <<>>
  /\ show = FALSE
  /\ selected = {}
  /\ selectedIndex = -1
  /\ display = [result |-> "none", error |-> "none", buttonText |-> "",
                loadingSpinner |-> "none", disabled |-> FALSE, resultBy |-> 0, errorBy |-> 0]
  /\ invocations = <<>>

\* A call of calculateTotalProjectedPoints is entered.
InitCalculation ==
  /\ \E c \in Calls : playerData = c[1] /\ rawGameParams = c[2] /\ adjustments = c[3]
  /\ pc = "parseMinutes"
  /\ locals = NoLocals
  /\ calculations = NoCalculations
  /\ outcome = Pending
  /\ paceCall = NoPaceCall
  /\ history = NoHistory
  /\ HandlerIdle
  /\ PageLoaded

\* A call of calculatePaceAdjustment is entered.
InitPace ==
  /\ playerData = ExamplePlayer
  /\ rawGameParams = GameParams(RawUndefined, RawUndefined)
  /\ adjustments = NeutralAdjustments
  /\ pc = "idle"
  /\ locals = NoLocals
  /\ calculations = NoCalculations
  /\ outcome = Pending
  /\ \E p \in PaceValues, a \in PaceValues :
        paceCall = [state |-> "called", opponentPace |-> p, leagueAvgPace |-> a,
                    result |-> Undefined]
  /\ history = NoHistory
  /\ HandlerIdle
  /\ PageLoaded

Init == InitCalculation \/ InitPace

args == <<playerData, rawGameParams, adjustments>>

\* A statement of the try block throws: the catch block throws the error again.
Throw(error) ==
  /\ pc' = "thrown"
  /\ outcome' = Thrown(Rethrow(error))
  /\ UNCHANGED <<args, locals, calculations, paceCall, history, handlerVars, pageVars>>

Continue(next) ==
  /\ pc' = next
  /\ UNCHANGED <<args, calculations, outcome, paceCall, history, handlerVars, pageVars>>

\* const <name> = r, r being what a call of validateAndParseNumber came to.
Assign(name, r, next) ==
  IF r.threw THEN Throw(r.error)
  ELSE Continue(next) /\ locals' = [locals EXCEPT ![name] = r.value]

\* A variant that puts a default of 36 in the place of the raw minutes once
\* they are parsed.
ParseMinutes_WritesDefault ==
  /\ pc = "parseMinutes"
  /\ IF validateAndParseNumber(rawGameParams.projectedMinutes, "Projected Minutes", FALSE).threw
     THEN Throw(validateAndParseNumber(rawGameParams.projectedMinutes, "Projected Minutes",
                                       FALSE).error)
     ELSE /\ pc' = "parseUsage"
          /\ locals' =
               [locals EXCEPT
                  !.projectedMinutes =
                     validateAndParseNumber(rawGameParams.projectedMinutes,
                                            "Projected Minutes", FALSE).value]
          /\ rawGameParams' = [rawGameParams EXCEPT !.projectedMinutes = Str36]
          /\ UNCHANGED <<playerData, adjustments, calculations, outcome, paceCall, history,
                         handlerVars, pageVars>>

\* const projectedMinutes = validateAndParseNumber(rawGameParams.projectedMinutes, ...)
ParseMinutes ==
  /\ pc = "parseMinutes"
  /\ Assign("projectedMinutes",
            validateAndParseNumber(rawGameParams.projectedMinutes, "Projected Minutes", FALSE),
            "parseUsage")

\* const usageAdjustment = validateAndParseNumber(rawGameParams.usageAdjustment, ...)
ParseUsage ==
  /\ pc = "parseUsage"
  /\ Assign("usageAdjustment",
            validateAndParseNumber(rawGameParams.usageAdjustment, "Usage Adjustment", FALSE),
            "checkMinutes")

\* A variant that refuses 48 minutes.
CheckMinutes_Below48 ==
  /\ pc = "checkMinutes"
  /\ IF FGe(locals.projectedMinutes, FFromInt(48))
     THEN Throw(Error("Projected Minutes", " cannot exceed 48.", FALSE, <<>>))
     ELSE Continue("checkUsage") /\ UNCHANGED locals

\* if (projectedMinutes > 48) throw
CheckMinutes ==
  /\ pc = "checkMinutes"
  /\ IF FGt(locals.projectedMinutes, FFromInt(48))
     THEN Throw(Error("Projected Minutes", " cannot exceed 48.", FALSE, <<>>))
     ELSE Continue("checkUsage") /\ UNCHANGED locals

\* if (usageAdjustment > 5) throw
CheckUsage ==
  /\ pc = "checkUsage"
  /\ IF FGt(locals.usageAdjustment, FFromInt(5))
     THEN Throw(Error("Usage Adjustment", " cannot exceed 5.0.", FALSE, <<>>))
     ELSE Continue("validatePlayer") /\ UNCHANGED locals

\* A variant that tests the adjustment factors before the player statistics.
ValidatePlayer_FactorsFirst ==
  /\ pc = "validatePlayer"
  /\ IF AdjustmentsInvalid(adjustments)
     THEN Throw(Error("", "Invalid or missing adjustment factors.", FALSE, <<>>))
     ELSE IF ~validatePlayerData(playerData)
     THEN Throw(Error("", "Missing or invalid core player statistics required for calculation.",
                      FALSE, <<>>))
     ELSE Continue("validateAdjustments") /\ UNCHANGED locals

\* STEP 2: if (!validatePlayerData({...})) throw
ValidatePlayer ==
  /\ pc = "validatePlayer"
  /\ IF ~validatePlayerData(playerData)
     THEN Throw(Error("", "Missing or invalid core player statistics required for calculation.",
                      FALSE, <<>>))
     ELSE Continue("validateAdjustments") /\ UNCHANGED locals

\* STEP 3: the test of the adjustment factors
ValidateAdjustments ==
  /\ pc = "validateAdjustments"
  /\ IF AdjustmentsInvalid(adjustments)
     THEN Throw(Error("", "Invalid or missing adjustment factors.", FALSE, <<>>))
     ELSE Continue("calculate") /\ UNCHANGED locals

\* STEP 4: the calculations
Calculate ==
  /\ pc = "calculate"
  /\ calculations' = PerformCalculations(playerData, locals.projectedMinutes,
                                         locals.usageAdjustment, adjustments)
  /\ pc' = "return"
  /\ UNCHANGED <<args, locals, outcome, paceCall, history, handlerVars, pageVars>>

\* STEP 5: return { ... }
Return ==
  /\ pc = "return"
  /\ outcome' = Returned(RoundedResults(playerData, adjustments, calculations))
  /\ pc' = "returned"
  /\ UNCHANGED <<args, locals, calculations, paceCall, history, handlerVars, pageVars>>

\* calculatePaceAdjustment runs.
PaceAdjustment ==
  /\ paceCall.state = "called"
  /\ paceCall' = [paceCall EXCEPT !.state = "returned",
                    !.result = calculatePaceAdjustment(paceCall.opponentPace,
                                                       paceCall.leagueAvgPace)]
  /\ UNCHANGED <<args, pc, locals, calculations, outcome, history, handlerVars, pageVars>>

Next ==
  \/ ParseMinutes
  \/ ParseUsage
  \/ CheckMinutes
  \/ CheckUsage
  \/ ValidatePlayer
  \/ ValidateAdjustments
  \/ Calculate
  \/ Return
  \/ PaceAdjustment

Spec == Init /\ [][Next]_vars

\* The steps agree with the function taken as a whole.
StepsAgree ==
  pc \in {"returned", "thrown"} =>
    outcome = calculateTotalProjectedPoints(playerData, rawGameParams, adjustments)

\* ---- calls of calculateTotalProjectedPoints one after another ----

\* The calls a sequence is made of: valid ones and ones that fail each check.
SequenceCalls ==
  {<<p, GameParams(RawString(m), RawString(u)), a>> :
      p \in {ExamplePlayer, [ExamplePlayer EXCEPT !.FTA_36 = NaN]},
      m \in {<<"3", "2">>, <<"4", "9">>, <<"a", "b", "c">>},
      u \in {<<"1">>, <<"5", ".", "0", "1">>, <<"0">>},
      a \in {NeutralAdjustments, [NeutralAdjustments EXCEPT !.dvpFgaFactor = FZero(0)]}}

\* The first call of a sequence is entered.
InitCalls ==
  /\ \E c \in SequenceCalls :
        /\ playerData = c[1] /\ rawGameParams = c[2] /\ adjustments = c[3]
        /\ history = [entered |-> c, previous |-> NoPrevious]
  /\ pc = "parseMinutes"
  /\ locals = NoLocals
  /\ calculations = NoCalculations
  /\ outcome = Pending
  /\ paceCall = NoPaceCall
  /\ HandlerIdle
  /\ PageLoaded

\* The call is over and the caller calls again, with new records or with the
\* very records of the call before; the function's consts are new with
\* every call.
Enter ==
  /\ pc \in {"returned", "thrown"}
  /\ \/ UNCHANGED args
     \/ \E c \in SequenceCalls :
           playerData' = c[1] /\ rawGameParams' = c[2] /\ adjustments' = c[3]
  /\ history' = [entered |-> <<playerData', rawGameParams', adjustments'>>,
                 previous |-> [defined |-> TRUE, args |-> args, outcome |-> outcome]]
  /\ pc' = "parseMinutes"
  /\ locals' = NoLocals
  /\ calculations' = NoCalculations
  /\ outcome' = Pending
  /\ UNCHANGED <<paceCall, handlerVars, pageVars>>

NextCalls ==
  \/ ParseMinutes
  \/ ParseUsage
  \/ CheckMinutes
  \/ CheckUsage
  \/ ValidatePlayer
  \/ ValidateAdjustments
  \/ Calculate
  \/ Return
  \/ Enter

SpecCalls == InitCalls /\ [][NextCalls]_vars

\* ------------------------------------------------------------------------
\* src/api/calculate-projection.js
\* ------------------------------------------------------------------------

LowerCase ==
  <<"a", "b", "c", "d", "e", "f", "g", "h", "i", "j", "k", "l", "m",
    "n", "o", "p", "q", "r", "s", "t", "u", "v", "w", "x", "y", "z">>

UpperCase ==
  <<"A", "B", "C", "D", "E", "F", "G", "H", "I", "J", "K", "L", "M",
    "N", "O", "P", "Q", "R", "S", "T", "U", "V", "W", "X", "Y", "Z">>

\* The character of `to` at the place c has in `from`, c itself when it has none.
MapChar(c, from, to) ==
  IF \E i \in 1..Len(from) : from[i] = c
  THEN to[CHOOSE i \in 1..Len(from) : from[i] = c]
  ELSE c

\* str.toLowerCase()
toLowerCase(str) == [i \in 1..Len(str) |-> MapChar(str[i], UpperCase, LowerCase)]

\* str.toUpperCase()
toUpperCase(str) == [i \in 1..Len(str) |-> MapChar(str[i], LowerCase, UpperCase)]

\* str.trim() === ''
IsBlank(str) == \A i \in 1..Len(str) : str[i] = " "

\* A query parameter given more than once reaches the handler as an array.
RawArray == [t |-> "array", chars |-> <<>>]

\* !value, for a value that is a string, an array or undefined
Falsy(value) == value.t = "undefined" \/ (value.t = "string" /\ value.chars = <<>>)

\* !value || typeof value !== 'string' || value.trim() === ''
ParameterInvalid(value) ==
  Falsy(value) \/ value.t # "string" \/ IsBlank(value.chars)

\* error.message
MessageOf(error) ==
  <<error.prefix, error.field, error.text>>
  \o (IF error.quoted THEN <<"\"">> \o error.received \o <<"\"">> ELSE <<>>)

\* What Array.prototype.find comes to, from the indices of the elements that
\* pass the test: the first of them, undefined when there is none.
NotFound == [defined |-> FALSE, index |-> 0]

First(indices) ==
  IF indices = {} THEN NotFound
  ELSE [defined |-> TRUE, index |-> CHOOSE i \in indices : \A j \in indices : i <= j]

\* findPlayer(playerStats, playerName)
findPlayer(playerStats, playerName) ==
  First({i \in 1..Len(playerStats) :
           toLowerCase(playerStats[i].player) = toLowerCase(playerName)})

\* findTeamPace(teamPace, teamAbbr)
findTeamPace(teamPace, teamAbbr) ==
  First({i \in 1..Len(teamPace) : teamPace[i].team = toUpperCase(teamAbbr)})

DvpEntry(position, fgaFactor, ftaFactor) ==
  [position |-> position, dvp_fga_factor |-> fgaFactor, dvp_fta_factor |-> ftaFactor]

\* The factors findDVP falls back to.
DefaultDvp == DvpEntry(<<>>, One, One)

\* team.defense_vs_position[position] when the team has it, the fallback otherwise
DvpOfPosition(entries, entry) ==
  IF entry.defined THEN entries[entry.index] ELSE DefaultDvp

DvpOfTeam(dvpData, team, position) ==
  IF team.defined
  THEN DvpOfPosition(dvpData[team.index].defense_vs_position,
                     First({i \in 1..Len(dvpData[team.index].defense_vs_position) :
                              dvpData[team.index].defense_vs_position[i].position = position}))
  ELSE DefaultDvp

\* findDVP(dvpData, teamAbbr, position)
findDVP(dvpData, teamAbbr, position) ==
  DvpOfTeam(dvpData,
            First({i \in 1..Len(dvpData) : dvpData[i].team = toUpperCase(teamAbbr)}),
            position)

\* typeof leagueAvgPace !== 'number' || !isFinite(leagueAvgPace) || leagueAvgPace <= 0
LeaguePaceInvalid(leagueAvgPace) ==
  ~IsNumberType(leagueAvgPace) \/ ~IsFinite(leagueAvgPace) \/ FLe(leagueAvgPace, FZero(0))

\* A variant that prefers the position the player is recorded with.
PositionToUse_RecordFirst(player_position, player) ==
  IF Falsy(player.position) THEN player_position ELSE player.position

\* player_position || player.position
PositionToUse(player_position, player) ==
  IF Falsy(player_position) THEN player.position ELSE player_position

\* The object handed to res.json, and no body for res.end().
NoPayload == [present |-> FALSE]

Json(success, error, message, payload) ==
  [kind |-> "json", success |-> success, error |-> error, message |-> message,
   payload |-> payload]

NoBody == [kind |-> "none", success |-> "absent", error |-> <<>>, message |-> <<>>,
           payload |-> NoPayload]

ErrorBody(error) == Json("absent", error, <<>>, NoPayload)

\* The object of the 200 response (the date of the calculation left out).
Projection(player, opponentTeam, query, positionToUse, projectionResult) ==
  [present |-> TRUE,
   player |-> [name |-> player.player, team |-> player.team, position |-> player.position,
               season_avg_ppg |-> player.points_per_game],
   opponent |-> [team |-> toUpperCase(query.opponent_team.chars), pace |-> opponentTeam.pace,
                 pace_rank |-> opponentTeam.rank],
   inputs |-> [projected_minutes |-> query.projected_minutes,
               usage_adjustment |-> query.usage_adjustment,
               position_used |-> positionToUse],
   projection |-> projectionResult,
   metadata |-> [data_source |-> "2024-25 NBA Season Stats"]]

\* ---- the reference data and the requests of the model ----

PlayerEntry(name, team, position, pointsPerGame, stats) ==
  [player |-> name, team |-> team, position |-> position,
   points_per_game |-> pointsPerGame, stats |-> stats]

TeamEntry(team, pace, rank) == [team |-> team, pace |-> pace, rank |-> rank]

DvpTeam(team, entries) == [team |-> team, defense_vs_position |-> entries]

PG == <<"P", "G">>

ModelPlayers ==
  <<PlayerEntry(<<"A", "b">>, <<"L", "A", "L">>, RawString(PG), Dec(251, 1), ExamplePlayer),
    PlayerEntry(<<"C", "d">>, <<"D", "E", "N">>, RawUndefined, Dec(82, 1), ExamplePlayer),
    PlayerEntry(<<"E", "f">>, <<"B", "O", "S">>, RawString(<<"C">>), Dec(120, 1),
                [ExamplePlayer EXCEPT !.FGA_36 = Undefined]),
    PlayerEntry(<<"A", "B">>, <<"M", "E", "M">>, RawString(<<"S", "G">>), Dec(47, 1),
                RatePlayer(Dec(2445, 2), Dec(1235, 2)))>>

ModelTeams ==
  <<TeamEntry(<<"M", "E", "M">>, Dec(985, 1), Dec(12, 0)),
    TeamEntry(<<"B", "O", "S">>, FZero(0), Dec(30, 0)),
    TeamEntry(<<"L", "A", "L">>, Undefined, Dec(17, 0)),
    TeamEntry(<<"D", "E", "N">>, Dec(1023, 1), Dec(3, 0))>>

ModelDvp ==
  <<DvpTeam(<<"M", "E", "M">>,
            <<DvpEntry(PG, Dec(105, 2), Dec(95, 2)), DvpEntry(<<"C">>, Undefined, Undefined)>>),
    DvpTeam(<<"D", "E", "N">>, <<DvpEntry(PG, Dec(95, 2), Dec(108, 2))>>),
    DvpTeam(<<"L", "A", "L">>, <<>>)>>

\* The three files: whether they can be read and parsed, and what they hold.
Files(loads, leagueAveragePace) ==
  [loads |-> loads,
   failure |-> "ENOENT: no such file or directory",
   players |-> ModelPlayers,
   teams |-> ModelTeams,
   league_average_pace |-> leagueAveragePace,
   dvp |-> ModelDvp]

StandardFiles == Files(TRUE, Dec(100, 0))

OtherFiles ==
  {Files(FALSE, Dec(100, 0))}
  \cup {Files(TRUE, v) : v \in {Undefined, FZero(0), Dec(-98, 0), NaN, Inf(0), StringVal}}

Query(playerName, opponentTeam, projectedMinutes, usageAdjustment, playerPosition) ==
  [player_name |-> playerName, opponent_team |-> opponentTeam,
   projected_minutes |-> projectedMinutes, usage_adjustment |-> usageAdjustment,
   player_position |-> playerPosition]

Request(method, query) ==
  [method |-> method, url |-> "/api/calculate-projection", query |-> query]

BaseQuery == Query(RawString(<<"a", "b">>), RawString(<<"m", "e", "m">>), Str32, Str1p0,
                   RawUndefined)

Absent == {RawUndefined, RawString(<<>>), RawString(<<" ">>), RawArray}

NameValues ==
  Absent \cup {RawString(c) : c \in {<<"a", "b">>, <<"A", "b">>, <<"C", "D">>, <<"e", "f">>,
                                     <<"z", "z">>, <<"a", "b", " ">>}}

TeamValues ==
  Absent \cup {RawString(c) : c \in {<<"m", "e", "m">>, <<"M", "E", "M">>, <<"b", "o", "s">>,
                                     <<"l", "a", "l">>, <<"D", "e", "n">>, <<"x", "y", "z">>}}

QueryMinutes ==
  Absent \cup {RawString(c) : c \in {<<"3", "2">>, <<"4", "9">>, <<"a", "b", "c">>, <<"0">>,
                                     <<"3", "2", "a", "b", "c">>, <<"4", "8">>}}

QueryUsage ==
  Absent \cup {RawString(c) : c \in {<<"1", ".", "0">>, <<"5", ".", "0", "1">>, <<"5">>,
                                     <<"0">>, <<"a", "b", "c">>}}

PositionValues ==
  Absent \cup {RawString(c) : c \in {PG, <<"C">>, <<"S", "G">>, <<"p", "g">>}}

Queries ==
  {Query(n, t, m, u, p) :
     n \in {RawUndefined} \cup {RawString(c) : c \in {<<"a", "b">>, <<"C", "D">>, <<"e", "f">>,
                                                      <<"z", "z">>}},
     t \in {RawUndefined} \cup {RawString(c) : c \in {<<"m", "e", "m">>, <<"b", "o", "s">>,
                                                      <<"l", "a", "l">>, <<"x", "y", "z">>}},
     m \in {RawString(c) : c \in {<<"3", "2">>, <<"4", "9">>, <<"a", "b", "c">>}},
     u \in {RawString(c) : c \in {<<"1", ".", "0">>, <<"5", ".", "0", "1">>}},
     p \in {RawUndefined, RawString(PG), RawString(<<"C">>), RawString(<<" ">>)}}
  \cup {[BaseQuery EXCEPT !.player_name = v] : v \in NameValues}
  \cup {[BaseQuery EXCEPT !.opponent_team = v] : v \in TeamValues}
  \cup {[BaseQuery EXCEPT !.projected_minutes = v] : v \in QueryMinutes}
  \cup {[BaseQuery EXCEPT !.usage_adjustment = v] : v \in QueryUsage}
  \cup {[BaseQuery EXCEPT !.player_position = v] : v \in PositionValues}
  \cup {[BaseQuery EXCEPT !.player_name = RawString(<<"A", "B">>), !.opponent_team = t,
                          !.player_position = v] :
           t \in TeamValues \ Absent, v \in PositionValues}

FewQueries ==
  {BaseQuery, [BaseQuery EXCEPT !.player_name = RawUndefined],
   [BaseQuery EXCEPT !.player_name = RawString(<<"z", "z">>)],
   [BaseQuery EXCEPT !.projected_minutes = RawString(<<"4", "9">>)]}

\* The requests the model handles, each with the files it finds.
Requests ==
  {<<Request("GET", q), StandardFiles>> : q \in Queries}
  \cup {<<Request("GET", q), f>> : q \in FewQueries, f \in OtherFiles}
  \cup {<<Request(m, q), f>> : m \in {"OPTIONS", "POST", "PUT", "HEAD"}, q \in FewQueries,
                               f \in {StandardFiles, Files(FALSE, Dec(100, 0))}}

\* ---- the handler, statement by statement ----

coreVars ==
  <<playerData, rawGameParams, adjustments, pc, locals, calculations, outcome, paceCall,
    history>>

NoFound ==
  [player |-> NotFound, opponentTeam |-> NotFound, positionToUse |-> RawUndefined,
   dvp |-> DefaultDvp, error |-> <<>>]

\* A request arrives; calculateTotalProjectedPoints has not been called.
InitHandler ==
  /\ playerData = ExamplePlayer
  /\ rawGameParams = GameParams(RawUndefined, RawUndefined)
  /\ adjustments = NeutralAdjustments
  /\ pc = "idle"
  /\ locals = NoLocals
  /\ calculations = NoCalculations
  /\ outcome = Pending
  /\ paceCall = NoPaceCall
  /\ history = NoHistory
  /\ \E r \in Requests : req = r[1] /\ files = r[2]
  /\ hpc = "start"
  /\ found = NoFound
  /\ res = [headers |-> FALSE, sent |-> 0, status |-> 200, body |-> NoBody]
  /\ PageLoaded

\* res.status(status).json(body); return
Send(status, body) ==
  /\ res' = [res EXCEPT !.status = status, !.body = body, !.sent = @ + 1]
  /\ hpc' = "done"
  /\ UNCHANGED <<req, files, found, coreVars, pageVars>>

Goto(next) ==
  /\ hpc' = next
  /\ UNCHANGED <<req, files, found, res, coreVars, pageVars>>

\* A statement of the try block throws an Error with this message.
ThrowMessage(message) ==
  /\ hpc' = "catch"
  /\ found' = [found EXCEPT !.error = message]
  /\ UNCHANGED <<req, files, res, coreVars, pageVars>>

\* A variant whose OPTIONS branch ends the response without returning, so
\* that the handler goes on to the query parameters and answers again.
HandleMethod_NoReturn ==
  /\ hpc = "start"
  /\ IF req.method = "OPTIONS"
     THEN /\ res' = [res EXCEPT !.headers = TRUE, !.status = 200, !.sent = @ + 1]
          /\ hpc' = "query"
     ELSE IF req.method # "GET"
     THEN /\ res' = [res EXCEPT !.headers = TRUE, !.status = 405, !.sent = @ + 1,
                       !.body = Json("absent", <<"Method not allowed">>,
                                     <<"Only GET method is supported for ", req.url>>,
                                     NoPayload)]
          /\ hpc' = "done"
     ELSE /\ res' = [res EXCEPT !.headers = TRUE]
          /\ hpc' = "query"
  /\ UNCHANGED <<req, files, found, coreVars, pageVars>>

\* The CORS headers, then the tests of req.method.
HandleMethod ==
  /\ hpc = "start"
  /\ IF req.method = "OPTIONS"
     THEN /\ res' = [res EXCEPT !.headers = TRUE, !.status = 200, !.sent = @ + 1]
          /\ hpc' = "done"
     ELSE IF req.method # "GET"
     THEN /\ res' = [res EXCEPT !.headers = TRUE, !.status = 405, !.sent = @ + 1,
                       !.body = Json("absent", <<"Method not allowed">>,
                                     <<"Only GET method is supported for ", req.url>>,
                                     NoPayload)]
          /\ hpc' = "done"
     ELSE /\ res' = [res EXCEPT !.headers = TRUE]
          /\ hpc' = "query"
  /\ UNCHANGED <<req, files, found, coreVars, pageVars>>

\* A variant that does not test usage_adjustment.
ValidateQuery_UsageUntested ==
  /\ hpc = "query"
  /\ IF ParameterInvalid(req.query.player_name)
     THEN Send(400, ErrorBody(<<"Missing or invalid player_name parameter">>))
     ELSE IF ParameterInvalid(req.query.opponent_team)
     THEN Send(400, ErrorBody(<<"Missing or invalid opponent_team parameter">>))
     ELSE IF ParameterInvalid(req.query.projected_minutes)
     THEN Send(400, ErrorBody(<<"Missing projected_minutes parameter">>))
     ELSE Goto("load")

\* The validation of the query parameters.
ValidateQuery ==
  /\ hpc = "query"
  /\ IF ParameterInvalid(req.query.player_name)
     THEN Send(400, ErrorBody(<<"Missing or invalid player_name parameter">>))
     ELSE IF ParameterInvalid(req.query.opponent_team)
     THEN Send(400, ErrorBody(<<"Missing or invalid opponent_team parameter">>))
     ELSE IF ParameterInvalid(req.query.projected_minutes)
     THEN Send(400, ErrorBody(<<"Missing projected_minutes parameter">>))
     ELSE IF ParameterInvalid(req.query.usage_adjustment)
     THEN Send(400, ErrorBody(<<"Missing usage_adjustment parameter">>))
     ELSE Goto("load")

\* const { playerStats, teamPace, dvpData } = loadData()
LoadData ==
  /\ hpc = "load"
  /\ IF ~files.loads
     THEN ThrowMessage(<<"Failed to load necessary NBA data files: ", files.failure>>)
     ELSE Goto("findPlayer")

\* A variant that goes on to the team without testing what the lookup found.
FindPlayer_Untested ==
  /\ hpc = "findPlayer"
  /\ found' = [found EXCEPT
                 !.player = findPlayer(files.players, req.query.player_name.chars)]
  /\ hpc' = "findTeam"
  /\ UNCHANGED <<req, files, res, coreVars, pageVars>>

\* const player = findPlayer(playerStats, player_name); if (!player) return 404
FindPlayer ==
  /\ hpc = "findPlayer"
  /\ IF ~findPlayer(files.players, req.query.player_name.chars).defined
     THEN Send(404, ErrorBody(<<"Player \"">> \o req.query.player_name.chars
                              \o <<"\" not found in database. Please check spelling.">>))
     ELSE /\ found' = [found EXCEPT
                         !.player = findPlayer(files.players, req.query.player_name.chars)]
          /\ hpc' = "findTeam"
          /\ UNCHANGED <<req, files, res, coreVars, pageVars>>

\* const opponentTeam = findTeamPace(teamPace, opponent_team); if (!opponentTeam) return 404
FindTeam ==
  /\ hpc = "findTeam"
  /\ IF ~findTeamPace(files.teams, req.query.opponent_team.chars).defined
     THEN Send(404, ErrorBody(<<"Opponent team \"">> \o req.query.opponent_team.chars
            \o <<"\" not found in database. Please use a valid NBA team abbreviation.">>))
     ELSE /\ found' = [found EXCEPT
                         !.opponentTeam =
                            findTeamPace(files.teams, req.query.opponent_team.chars)]
          /\ hpc' = "leaguePace"
          /\ UNCHANGED <<req, files, res, coreVars, pageVars>>

\* The test of league_average_pace.
CheckLeaguePace ==
  /\ hpc = "leaguePace"
  /\ IF LeaguePaceInvalid(files.league_average_pace)
     THEN ThrowMessage(<<"League average pace data is invalid or missing.">>)
     ELSE Goto("position")

\* const positionToUse = player_position || player.position, and its test
DeterminePosition ==
  /\ hpc = "position"
  /\ IF ParameterInvalid(PositionToUse(req.query.player_position,
                                       files.players[found.player.index]))
     THEN Send(400, ErrorBody(<<"Could not determine player position for DVP calculation.">>))
     ELSE /\ found' = [found EXCEPT
                         !.positionToUse =
                            PositionToUse(req.query.player_position,
                                          files.players[found.player.index])]
          /\ hpc' = "findDVP"
          /\ UNCHANGED <<req, files, res, coreVars, pageVars>>

\* const dvp = findDVP(dvpData, opponent_team, positionToUse)
LookupDvp ==
  /\ hpc = "findDVP"
  /\ found' = [found EXCEPT
                 !.dvp = findDVP(files.dvp, req.query.opponent_team.chars,
                                 found.positionToUse.chars)]
  /\ hpc' = "callCore"
  /\ UNCHANGED <<req, files, res, coreVars, pageVars>>

\* The adjustments and rawGameParams objects are built and
\* calculateTotalProjectedPoints(player, rawGameParams, adjustments) is entered.
CallCore ==
  /\ hpc = "callCore"
  /\ playerData' = files.players[found.player.index].stats
  /\ rawGameParams' = GameParams(req.query.projected_minutes, req.query.usage_adjustment)
  /\ adjustments' =
       Adjustments(calculatePaceAdjustment(files.teams[found.opponentTeam.index].pace,
                                           files.league_average_pace),
                   found.dvp.dvp_fga_factor, found.dvp.dvp_fta_factor)
  /\ pc' = "parseMinutes"
  /\ hpc' = "core"
  /\ UNCHANGED <<locals, calculations, outcome, paceCall, history, req, files, found, res,
               pageVars>>

\* res.status(200).json({ success: true, ... }), once the core has returned
Respond ==
  /\ hpc = "core"
  /\ pc = "returned"
  /\ Send(200, Json("true", <<>>, <<>>,
                    Projection(files.players[found.player.index],
                               files.teams[found.opponentTeam.index],
                               req.query, found.positionToUse, outcome.result)))

\* The catch block of the handler: whatever the try block threw, the core's
\* error included, is answered with 500 and the error's message.
Catch ==
  /\ hpc = "catch" \/ (hpc = "core" /\ pc = "thrown")
  /\ Send(500, Json("false", <<"Internal server error during projection calculation">>,
                    IF hpc = "catch" THEN found.error ELSE MessageOf(outcome.error),
                    NoPayload))

NextHandler ==
  \/ HandleMethod
  \/ ValidateQuery
  \/ LoadData
  \/ FindPlayer
  \/ FindTeam
  \/ CheckLeaguePace
  \/ DeterminePosition
  \/ LookupDvp
  \/ CallCore
  \/ ParseMinutes
  \/ ParseUsage
  \/ CheckMinutes
  \/ CheckUsage
  \/ ValidatePlayer
  \/ ValidateAdjustments
  \/ Calculate
  \/ Return
  \/ Respond
  \/ Catch

SpecHandler == InitHandler /\ [][NextHandler]_vars

\* The statements of the handler the model distinguishes.
HandlerTypeOK ==
  hpc \in {"idle", "start", "query", "load", "findPlayer", "findTeam", "leaguePace",
           "position", "findDVP", "callCore", "core", "catch", "done"}

\* ------------------------------------------------------------------------
\* src/public/index.html: the script of the page
\* ------------------------------------------------------------------------

MaxInvocations == 2

\* const players = [...]: three names stand for the hundred of the page.
players == <<<<"A", "l">>, <<"A", "b">>, <<"B", "a">>>>

\* What the user types into #playerName.
Terms == {<<>>, <<"a">>, <<"L">>}

\* What the user sets the select and the two number inputs to:
\* <<opponentTeam, projectedMinutes, usageAdjustment>>.
Forms ==
  {<<<<"M", "E", "M">>, <<"3", "2">>, <<"1", ".", "0", "0">>>>,
   <<<<"M", "E", "M">>, <<"4", "8">>, <<"6">>>>,
   <<<<"M", "E", "M">>, <<"4", "9">>, <<"0">>>>}

\* player.includes(searchTerm)
Includes(str, term) ==
  \E i \in 0..(Len(str) - Len(term)) : SubSeq(str, i + 1, i + Len(term)) = term

RECURSIVE FilterFrom(_, _)
FilterFrom(i, searchTerm) ==
  IF i > Len(players) THEN <<>>
  ELSE (IF Includes(toLowerCase(players[i]), searchTerm) THEN <<players[i]>> ELSE <<>>)
       \o FilterFrom(i + 1, searchTerm)

\* players.filter(player => player.toLowerCase().includes(searchTerm))
filteredPlayers(searchTerm) == FilterFrom(1, searchTerm)

\* items.forEach: the item at selectedIndex gets the class, every other loses it.
updateSelection(classes, length, index) ==
  (classes \cup {i \in 0..(length - 1) : i = index}) \ {i \in 0..(length - 1) : i # index}

hideResults(d) == [d EXCEPT !.result = "none", !.resultBy = 0]

hideError(d) == [d EXCEPT !.error = "none", !.errorBy = 0]

\* showError(message), called by the invocation numbered by; the text of
\* #errorMessage is left out.
showError(d, by) == [d EXCEPT !.error = "block", !.errorBy = by]

\* showResults(), called by the invocation numbered by.
showResults(d, by) == [d EXCEPT !.result = "block", !.resultBy = by]

setLoadingState(d, loading) ==
  IF loading
  THEN [d EXCEPT !.buttonText = "none", !.loadingSpinner = "inline", !.disabled = TRUE]
  ELSE [d EXCEPT !.buttonText = "inline", !.loadingSpinner = "none", !.disabled = FALSE]

\* isNaN(projectedMinutes) || projectedMinutes <= 0 || projectedMinutes > 48
MinutesRejected(projectedMinutes) ==
  \/ IsNaN(projectedMinutes)
  \/ FLe(projectedMinutes, FZero(0))
  \/ FGt(projectedMinutes, FFromInt(48))

\* isNaN(usageAdjustment) || usageAdjustment <= 0
UsageRejected(usageAdjustment) ==
  IsNaN(usageAdjustment) \/ FLe(usageAdjustment, FZero(0))

\* The message of the first client-side check that fails, "" when all pass.
ClientCheck(f) ==
  IF IsBlank(f.playerName) THEN "Please enter a player name"
  ELSE IF f.opponentTeam = <<>> THEN "Please select an opponent team"
  ELSE IF MinutesRejected(ParseFloat(f.projectedMinutes))
  THEN "Please enter valid projected minutes (1-48)"
  ELSE IF UsageRejected(ParseFloat(f.usageAdjustment))
  THEN "Please enter a valid usage adjustment"
  ELSE ""

FractionDigits == {0, 1, 2}

\* String(x), as URLSearchParams applies it to a number: the shortest decimal
\* that reads back as x, for the numbers that have one of two fraction digits.
NumberToString(x) ==
  IF ~IsFinite(x) THEN ToFixed(x, 0)
  ELSE ToFixed(x, CHOOSE f \in FractionDigits :
                    /\ ParseFloat(ToFixed(x, f)) = x
                    /\ \A g \in FractionDigits : g < f => ParseFloat(ToFixed(x, g)) # x)

\* new URLSearchParams({ ..., projected_minutes, usage_adjustment })
Params(f) ==
  [projected_minutes |-> RawString(NumberToString(ParseFloat(f.projectedMinutes))),
   usage_adjustment |-> RawString(NumberToString(ParseFloat(f.usageAdjustment)))]

NoParams == [projected_minutes |-> RawUndefined, usage_adjustment |-> RawUndefined]

\* An invocation of calculateProjection: returned at a client-side check,
\* suspended at one of its two awaits, or finished.
Rejected == [at |-> "rejected", ok |-> FALSE, params |-> NoParams]

Awaiting(at, ok, params) == [at |-> at, ok |-> ok, params |-> params]

Settled == [at |-> "finished", ok |-> FALSE, params |-> NoParams]

\* What a handler of the page reads and writes besides the list.
PageState ==
  [fields |-> fields, items |-> items, show |-> show, selectedIndex |-> selectedIndex,
   display |-> display, invocations |-> invocations]

\* calculateProjection() up to its return or its first await.
calculateProjection(s) ==
  IF ClientCheck(s.fields) # ""
  THEN [s EXCEPT !.display = showError(hideError(hideResults(@)), Len(s.invocations) + 1),
                 !.invocations = Append(@, Rejected)]
  ELSE [s EXCEPT !.display = setLoadingState(hideError(hideResults(@)), TRUE),
                 !.invocations = Append(@, Awaiting("fetch", FALSE, Params(s.fields)))]

\* The keydown listener of #playerName, e.key === 'Enter'.
keydownEnter(s) ==
  IF Len(s.items) = 0 THEN s
  ELSE IF s.selectedIndex > -1 /\ s.show
  THEN [s EXCEPT !.fields.playerName = s.items[s.selectedIndex + 1], !.show = FALSE]
  ELSE IF ~s.show THEN calculateProjection(s)
  ELSE s

\* The keypress listener of the document, e.key === 'Enter'.
keypressEnter(s) ==
  IF ~s.show \/ s.selectedIndex = -1 THEN calculateProjection(s) ELSE s

\* The document's click listener, for a target outside the input and the list.
clickOutside(s) == [s EXCEPT !.show = FALSE, !.selectedIndex = -1]

serverVars == <<coreVars, handlerVars>>

\* The page is loaded; the server is not part of the model of the page.
InitPage ==
  /\ playerData = ExamplePlayer
  /\ rawGameParams = GameParams(RawUndefined, RawUndefined)
  /\ adjustments = NeutralAdjustments
  /\ pc = "idle"
  /\ locals = NoLocals
  /\ calculations = NoCalculations
  /\ outcome = Pending
  /\ paceCall = NoPaceCall
  /\ history = NoHistory
  /\ HandlerIdle
  /\ PageLoaded

\* The handlers of one event have run: the state s is the page's.
Becomes(s) ==
  /\ fields' = s.fields
  /\ show' = s.show
  /\ selectedIndex' = s.selectedIndex
  /\ display' = s.display
  /\ invocations' = s.invocations
  /\ UNCHANGED <<items, selected, serverVars>>

\* The input listener of #playerName: the user has typed and the value is term.
Input(term) ==
  /\ fields' = [fields EXCEPT !.playerName = term]
  /\ selectedIndex' = -1
  /\ selected' = {}
  /\ items' = IF Len(term) = 0 THEN <<>> ELSE filteredPlayers(toLowerCase(term))
  /\ show' = (Len(items') > 0)
  /\ UNCHANGED <<display, invocations, serverVars>>

\* A variant of ArrowUp that decrements without wrapping.
ArrowUp_NoWrap ==
  /\ Len(items) > 0
  /\ selectedIndex' = selectedIndex - 1
  /\ selected' = updateSelection(selected, Len(items), selectedIndex')
  /\ UNCHANGED <<fields, items, show, display, invocations, serverVars>>

\* The keydown listener, e.key === 'ArrowDown'.
ArrowDown ==
  /\ Len(items) > 0
  /\ selectedIndex' = IF selectedIndex < Len(items) - 1 THEN selectedIndex + 1 ELSE 0
  /\ selected' = updateSelection(selected, Len(items), selectedIndex')
  /\ UNCHANGED <<fields, items, show, display, invocations, serverVars>>

\* The keydown listener, e.key === 'ArrowUp'.
ArrowUp ==
  /\ Len(items) > 0
  /\ selectedIndex' = IF selectedIndex > 0 THEN selectedIndex - 1 ELSE Len(items) - 1
  /\ selected' = updateSelection(selected, Len(items), selectedIndex')
  /\ UNCHANGED <<fields, items, show, display, invocations, serverVars>>

\* The keydown listener, e.key === 'Escape'.
Escape ==
  /\ Len(items) > 0
  /\ show' = FALSE
  /\ selectedIndex' = -1
  /\ UNCHANGED <<fields, items, selected, display, invocations, serverVars>>

\* The user presses Enter, in #playerName or elsewhere on the page: the
\* keydown listener of the input runs in the first case, then the keypress
\* listener of the document in both.
EnterPress(inField) ==
  /\ Len(invocations) < MaxInvocations
  /\ Becomes(keypressEnter(IF inField THEN keydownEnter(PageState) ELSE PageState))

\* A click on the button, which is not disabled: its onclick, then the
\* click listener of the document.
ClickButton ==
  /\ Len(invocations) < MaxInvocations
  /\ ~display.disabled
  /\ Becomes(clickOutside(calculateProjection(PageState)))

\* A click on a list item, the list being displayed: the listener of the li;
\* the document's listener finds the target inside the list.
ClickItem(i) ==
  /\ show
  /\ fields' = [fields EXCEPT !.playerName = items[i]]
  /\ show' = FALSE
  /\ UNCHANGED <<items, selected, selectedIndex, display, invocations, serverVars>>

\* A click anywhere else.
ClickElsewhere == Becomes(clickOutside(PageState))

\* The user sets the select and the number inputs; no listener runs.
Edit(form) ==
  /\ fields' = [fields EXCEPT !.opponentTeam = form[1], !.projectedMinutes = form[2],
                              !.usageAdjustment = form[3]]
  /\ UNCHANGED <<items, show, selected, selectedIndex, display, invocations, serverVars>>

\* catch (error) { showError(...) } finally { setLoadingState(false) }
Caught(i) ==
  /\ display' = setLoadingState(showError(display, i), FALSE)
  /\ invocations' = [invocations EXCEPT ![i] = Settled]
  /\ UNCHANGED <<fields, items, show, selected, selectedIndex, serverVars>>

\* await fetch(...) is fulfilled with a response, ok or not.
FetchResolves(i, ok) ==
  /\ invocations[i].at = "fetch"
  /\ invocations' = [invocations EXCEPT ![i] = Awaiting("json", ok, NoParams)]
  /\ UNCHANGED <<fields, items, show, selected, selectedIndex, display, serverVars>>

\* await fetch(...) is rejected: the network failed.
FetchRejects(i) == invocations[i].at = "fetch" /\ Caught(i)

\* await response.json() is fulfilled: the error of a response that is not
\* ok is thrown; the data of one that is ok is displayed, or displayResults
\* throws on data of another shape before it reaches showResults().
JsonResolves(i, wellFormed) ==
  /\ invocations[i].at = "json"
  /\ IF invocations[i].ok /\ wellFormed
     THEN /\ display' = setLoadingState(showResults(display, i), FALSE)
          /\ invocations' = [invocations EXCEPT ![i] = Settled]
          /\ UNCHANGED <<fields, items, show, selected, selectedIndex, serverVars>>
     ELSE Caught(i)

\* await response.json() is rejected: the body is no JSON.
JsonRejects(i) == invocations[i].at = "json" /\ Caught(i)

NextPage ==
  \/ \E term \in Terms : Input(term)
  \/ ArrowDown
  \/ ArrowUp
  \/ Escape
  \/ \E inField \in BOOLEAN : EnterPress(inField)
  \/ ClickButton
  \/ \E i \in 1..Len(items) : ClickItem(i)
  \/ ClickElsewhere
  \/ \E form \in Forms : Edit(form)
  \/ \E i \in 1..Len(invocations), ok \in BOOLEAN : FetchResolves(i, ok)
  \/ \E i \in 1..Len(invocations) : FetchRejects(i)
  \/ \E i \in 1..Len(invocations), wellFormed \in BOOLEAN : JsonResolves(i, wellFormed)
  \/ \E i \in 1..Len(invocations) : JsonRejects(i)

SpecPage == InitPage /\ [][NextPage]_vars

\* ------------------------------------------------------------------------
\* Properties
\* ------------------------------------------------------------------------

\* The call has got past STEP 3: every validation passed.
Validated == pc \in {"calculate", "return", "returned"}

Finished == pc \in {"returned", "thrown"}

\* C1: for every input that passes validation the unrounded total is
\* pointsFromTwos + pointsFromThrees + pointsFromFreeThrows, with
\* pointsFromTwos = FGA * (1 - threePointAttemptRate) * twoPointPct * 2,
\* pointsFromThrees = FGA * threePointAttemptRate * threePointPct * 3 and
\* pointsFromFreeThrows = FTA * freeThrowPct, FGA and FTA the projected attempts.
C1_TotalIsSumOfParts ==
  pc \in {"return", "returned"} =>
    calculations.totalProjectedPoints =
      FAdd(FAdd(FMul(FMul(FMul(calculations.projectedFGA,
                               FSub(One, playerData.three_point_attempt_rate)),
                          playerData.two_point_percentage), FFromInt(2)),
                FMul(FMul(FMul(calculations.projectedFGA,
                               playerData.three_point_attempt_rate),
                          playerData.three_point_percentage), FFromInt(3))),
           FMul(calculations.projectedFTA, playerData.free_throw_percentage))

\* A call that passed validation with all three kinds of points above zero.
C1_Witness ==
  /\ pc = "returned"
  /\ FGt(calculations.twoPointPoints, FZero(0))
  /\ FGt(calculations.threePointPoints, FZero(0))
  /\ FGt(calculations.freeThrowPoints, FZero(0))
  /\ adjustments # NeutralAdjustments

\* 0 < x <= bound for the number a raw game parameter is parsed to.
WithinBound(raw, bound) ==
  /\ FGt(ParseFloat(StringOf(raw)), FZero(0))
  /\ FLe(ParseFloat(StringOf(raw)), FFromInt(bound))

OtherInputsValid == validatePlayerData(playerData) /\ ~AdjustmentsInvalid(adjustments)

\* C2: with the other inputs valid, the game context is accepted exactly when
\* 0 < projectedMinutes <= 48 and 0 < usageAdjustment <= 5, the numbers being
\* those the two strings are parsed to; the call throws for minutes "0", "49",
\* "abc", "" and negative values and for usage "0", "5.01" and "-1", and
\* succeeds at minutes "48" and at usage "5".
C2_GameContextBounds ==
  (Finished /\ OtherInputsValid) =>
    /\ outcome.status = "returned" <=>
         (WithinBound(rawGameParams.projectedMinutes, 48)
          /\ WithinBound(rawGameParams.usageAdjustment, 5))
    /\ rawGameParams.projectedMinutes \in
         {RawString(<<"0">>), RawString(<<"4", "9">>), RawString(<<"a", "b", "c">>),
          RawString(<<>>), RawString(<<"-", "5">>), RawString(<<"-", "0", ".", "5">>)}
         => outcome.status = "thrown"
    /\ rawGameParams.usageAdjustment \in
         {RawString(<<"0">>), RawString(<<"5", ".", "0", "1">>), RawString(<<"-", "1">>)}
         => outcome.status = "thrown"
    /\ (rawGameParams.projectedMinutes = RawString(<<"4", "8">>)
        /\ rawGameParams.usageAdjustment \in {RawString(<<"5">>), Str1p0})
         => outcome.status = "returned"

\* Both boundary values are accepted together.
C2_Witness ==
  /\ pc = "returned"
  /\ rawGameParams = GameParams(RawString(<<"4", "8">>), RawString(<<"5">>))

C4_ZeroPaceIsNeutral ==
  (paceCall.state = "returned"
   /\ (IsZero(paceCall.opponentPace) \/ IsZero(paceCall.leagueAvgPace)))
  => FEq(paceCall.result, FFromInt(1))

\* C5: when calculateTotalProjectedPoints throws a validation error inside the
\* handler (projected_minutes "49" or "abc", usage_adjustment "5.01"), the
\* response has status 400 and carries the core's error message in its body.
C5_CoreValidationErrorIs400 ==
  (hpc = "done" /\ pc = "thrown") =>
    /\ res.sent = 1
    /\ res.status = 400
    /\ MessageOf(outcome.error) \in {res.body.message, res.body.error}

AllIn(str, i, j, set) == \A k \in i..j : str[k] \in set

Count(str, i, j, set) == Cardinality({k \in i..j : str[k] \in set})

\* Digits with at most one point among them.
Mantissa(str, i, j) ==
  /\ AllIn(str, i, j, DigitSet \cup {"."})
  /\ Count(str, i, j, {"."}) <= 1
  /\ Count(str, i, j, DigitSet) >= 1

\* Nothing, or "e", an optional sign and digits.
ExponentPart(str, i, j) ==
  \/ i > j
  \/ /\ str[i] \in {"e", "E"}
     /\ \E d \in (i + 1)..j :
           /\ AllIn(str, d, j, DigitSet)
           /\ d = i + 1 \/ (d = i + 2 /\ str[i + 1] \in {"+", "-"})

UnsignedNumeral(str, i, j) ==
  \/ SubSeq(str, i, j) = InfinityChars
  \/ \E b \in i..j : Mantissa(str, i, b) /\ ExponentPart(str, b + 1, j)

SignedNumeral(str, i, j) ==
  /\ i <= j
  /\ \/ UnsignedNumeral(str, i, j)
     \/ str[i] \in {"+", "-"} /\ UnsignedNumeral(str, i + 1, j)

\* The whole string is one decimal numeral, white space around it aside.
NumericString(str) ==
  \E i \in 1..Len(str), j \in 1..Len(str) :
     /\ AllIn(str, 1, i - 1, {" "})
     /\ AllIn(str, j + 1, Len(str), {" "})
     /\ SignedNumeral(str, i, j)

\* C6: validation rejects every projectedMinutes or usageAdjustment value that
\* is not a numeric string: a string with non-numeric characters, such as
\* "32abc", or a value that is missing makes the call throw.
C6_NonNumericRejected ==
  (Finished /\ (\/ rawGameParams.projectedMinutes.t # "string"
                \/ rawGameParams.usageAdjustment.t # "string"
                \/ ~NumericString(rawGameParams.projectedMinutes.chars)
                \/ ~NumericString(rawGameParams.usageAdjustment.chars)))
  => outcome.status = "thrown"

\* Raw values and what rounding half away from zero to one decimal makes of them.
RoundingExamples ==
  {<<Dec(24449999, 6), Dec(244, 1)>>, <<Dec(2445, 2), Dec(245, 1)>>,
   <<Dec(1234999, 5), Dec(123, 1)>>, <<Dec(1235, 2), Dec(124, 1)>>}

RoundedAsExamples(raw, rounded) == \A x \in RoundingExamples : raw = x[1] => rounded = x[2]

\* C7: rounding is half away from zero on the decimal value: a raw value of
\* 24.449999 is returned as 24.4 and 24.45 as 24.5, 12.34999 as 12.3 and
\* 12.35 as 12.4, in every field rounded to one decimal.
C7_RoundsHalfAwayFromZero ==
  pc = "returned" =>
    /\ RoundedAsExamples(calculations.totalProjectedPoints, outcome.result.projectedPoints)
    /\ RoundedAsExamples(calculations.twoPointPoints, outcome.result.breakdown.twoPointers)
    /\ RoundedAsExamples(calculations.threePointPoints, outcome.result.breakdown.threePointers)
    /\ RoundedAsExamples(calculations.freeThrowPoints, outcome.result.breakdown.freeThrows)
    /\ RoundedAsExamples(calculations.projectedFGA, outcome.result.breakdown.projectedFGA)
    /\ RoundedAsExamples(calculations.projectedFTA, outcome.result.breakdown.projectedFTA)
    /\ RoundedAsExamples(calculations.projectedFTA, outcome.result.attempts.freeThrowAttempts)

HalfTenth == Dec(51, 3)

HalfHundredth == Dec(51, 4)

\* The value is within half a unit of the last of its `digits` decimals of raw,
\* up to the representation error of the two doubles (0.51 units allow for it).
\* A raw value that is not finite is returned as it is.
Near(raw, rounded, digits) ==
  IF raw.k # "num" THEN rounded = raw
  ELSE /\ rounded.k = "num"
       /\ FLe(FSub(raw, rounded), IF digits = 1 THEN HalfTenth ELSE HalfHundredth)
       /\ FLe(FSub(rounded, raw), IF digits = 1 THEN HalfTenth ELSE HalfHundredth)

\* The value has at most `digits` decimals: writing it with that many and
\* reading it back changes nothing.
HasDecimals(x, digits) == ParseFloat(ToFixed(x, digits)) = x

IsRounding(raw, rounded, digits) ==
  HasDecimals(rounded, digits) /\ Near(raw, rounded, digits) /\ rounded = RoundTo(raw, digits)

\* C8: every numeric field of the result is rounded to one decimal, except
\* breakdown.paceAdjustment, rounded to two; each returned field is rounded on
\* its own from the unrounded intermediate values, which are themselves
\* computed from unrounded values.
C8_FieldsRoundedFromUnrounded ==
  pc = "returned" =>
    /\ IsRounding(calculations.totalProjectedPoints, outcome.result.projectedPoints, 1)
    /\ IsRounding(calculations.twoPointPoints, outcome.result.breakdown.twoPointers, 1)
    /\ IsRounding(calculations.threePointPoints, outcome.result.breakdown.threePointers, 1)
    /\ IsRounding(calculations.freeThrowPoints, outcome.result.breakdown.freeThrows, 1)
    /\ IsRounding(calculations.projectedFGA, outcome.result.breakdown.projectedFGA, 1)
    /\ IsRounding(calculations.projectedFTA, outcome.result.breakdown.projectedFTA, 1)
    /\ IsRounding(adjustments.paceAdjustment, outcome.result.breakdown.paceAdjustment, 2)
    /\ IsRounding(FMul(calculations.projectedFGA,
                       FSub(One, playerData.three_point_attempt_rate)),
                  outcome.result.attempts.twoPointAttempts, 1)
    /\ IsRounding(FMul(calculations.projectedFGA, playerData.three_point_attempt_rate),
                  outcome.result.attempts.threePointAttempts, 1)
    /\ IsRounding(calculations.projectedFTA, outcome.result.attempts.freeThrowAttempts, 1)
    /\ calculations.twoPointPoints =
         FMul(FMul(FMul(calculations.projectedFGA,
                        FSub(One, playerData.three_point_attempt_rate)),
                   playerData.two_point_percentage), FFromInt(2))
    /\ calculations.freeThrowPoints =
         FMul(calculations.projectedFTA, playerData.free_throw_percentage)

\* A result whose two-point attempts differ from what the rounded field goal
\* attempts would give, and whose pace adjustment keeps a second decimal.
C8_Witness ==
  /\ pc = "returned"
  /\ outcome.result.attempts.twoPointAttempts #
       RoundTo(FMul(outcome.result.breakdown.projectedFGA,
                    FSub(One, playerData.three_point_attempt_rate)), 1)
  /\ outcome.result.breakdown.paceAdjustment = Dec(102, 2)

\* C9: the player with FGA_36 18, FTA_36 5, two-point percentage 0.55,
\* three-point percentage 0.38, free-throw percentage 0.85 and three-point
\* attempt rate 0.4, at 32 minutes, usage 1.0 and all three factors 1.0, gets
\* FGA 16.0, 9.6 two-point and 6.4 three-point attempts, FTA 4.4, 10.6, 7.3 and
\* 3.8 points from twos, threes and free throws, and 21.6 projected points.
C9_WorkedExample ==
  (Finished
   /\ playerData = ExamplePlayer
   /\ rawGameParams = GameParams(Str32, Str1p0)
   /\ adjustments = NeutralAdjustments)
  => /\ outcome.status = "returned"
     /\ outcome.result.breakdown.projectedFGA = Dec(160, 1)
     /\ outcome.result.attempts.twoPointAttempts = Dec(96, 1)
     /\ outcome.result.attempts.threePointAttempts = Dec(64, 1)
     /\ outcome.result.breakdown.projectedFTA = Dec(44, 1)
     /\ outcome.result.attempts.freeThrowAttempts = Dec(44, 1)
     /\ outcome.result.breakdown.twoPointers = Dec(106, 1)
     /\ outcome.result.breakdown.threePointers = Dec(73, 1)
     /\ outcome.result.breakdown.freeThrows = Dec(38, 1)
     /\ outcome.result.projectedPoints = Dec(216, 1)

C9_Witness ==
  /\ pc = "returned"
  /\ playerData = ExamplePlayer
  /\ rawGameParams = GameParams(Str32, Str1p0)
  /\ adjustments = NeutralAdjustments
  /\ outcome.result.projectedPoints = Dec(216, 1)

\* Present, of number type, not NaN and at least 0.
StatisticValid(v) ==
  /\ v.k \in {"num", "inf"}
  /\ v.s = 0 \/ (v.k = "num" /\ v.m = <<>>)

AllSixValid(p) ==
  /\ StatisticValid(p.FGA_36)
  /\ StatisticValid(p.FTA_36)
  /\ StatisticValid(p.two_point_percentage)
  /\ StatisticValid(p.three_point_percentage)
  /\ StatisticValid(p.free_throw_percentage)
  /\ StatisticValid(p.three_point_attempt_rate)

PlayerRefused ==
  /\ pc = "thrown"
  /\ outcome.error.text = "Missing or invalid core player statistics required for calculation."

\* C10: calculateTotalProjectedPoints throws a validation error unless all six
\* statistics (FGA_36, FTA_36, two_point_percentage, three_point_percentage,
\* free_throw_percentage, three_point_attempt_rate) are present, of number
\* type, not NaN and >= 0; validatePlayerData is true exactly then, and a
\* statistic of 0 is accepted.
C10_PlayerStatisticsValidated ==
  /\ validatePlayerData(playerData) <=> AllSixValid(playerData)
  /\ pc \in {"validateAdjustments", "calculate", "return", "returned"}
       => AllSixValid(playerData)
  /\ (Finished /\ ~AllSixValid(playerData)) => outcome.status = "thrown"
  /\ PlayerRefused => ~AllSixValid(playerData)
  /\ (Finished /\ ~AllSixValid(playerData)
      /\ WithinBound(rawGameParams.projectedMinutes, 48)
      /\ WithinBound(rawGameParams.usageAdjustment, 5)) => PlayerRefused

\* A player with a statistic of 0 got through, and a result was returned.
C10_Witness ==
  /\ pc = "returned"
  /\ IsZero(playerData.FTA_36)
  /\ playerData.FGA_36 = ExamplePlayer.FGA_36

\* A finite number strictly greater than 0.
FactorValid(v) == v.k = "num" /\ v.s = 0 /\ v.m # <<>>

AllFactorsValid(a) ==
  /\ FactorValid(a.paceAdjustment)
  /\ FactorValid(a.dvpFgaFactor)
  /\ FactorValid(a.dvpFtaFactor)

FactorsRefused ==
  /\ pc = "thrown"
  /\ outcome.error.text = "Invalid or missing adjustment factors."

\* C11: calculateTotalProjectedPoints throws a validation error unless
\* paceAdjustment, dvpFgaFactor and dvpFtaFactor are all finite numbers
\* strictly greater than 0: a missing, non-number, NaN, infinite, zero or
\* negative value in any one of them is rejected, and the call never goes on
\* with a default in its place.
C11_AdjustmentFactorsValidated ==
  /\ pc \in {"calculate", "return", "returned"} => AllFactorsValid(adjustments)
  /\ (Finished /\ ~AllFactorsValid(adjustments)) =>
        outcome.status = "thrown" /\ calculations = NoCalculations
  /\ FactorsRefused => ~AllFactorsValid(adjustments)
  /\ (Finished /\ ~AllFactorsValid(adjustments) /\ AllSixValid(playerData)
      /\ WithinBound(rawGameParams.projectedMinutes, 48)
      /\ WithinBound(rawGameParams.usageAdjustment, 5)) => FactorsRefused

\* A factor of 0 among two valid ones was refused.
C11_Witness ==
  /\ FactorsRefused
  /\ IsZero(adjustments.dvpFtaFactor)
  /\ FactorValid(adjustments.paceAdjustment)
  /\ FactorValid(adjustments.dvpFgaFactor)

\* C12: every validation failure the core raises carries a message that
\* names the offending field and quotes the value received, whether the value
\* could not be parsed, was not positive, was over its bound (minutes > 48,
\* usage > 5), or was a bad player statistic or adjustment factor.
C12_ErrorNamesFieldAndValue ==
  pc = "thrown" =>
    /\ outcome.error.field # ""
    /\ outcome.error.quoted
    /\ \/ outcome.error.received = StringOf(rawGameParams.projectedMinutes)
       \/ outcome.error.received = StringOf(rawGameParams.usageAdjustment)
       \/ ~AllSixValid(playerData)
       \/ ~AllFactorsValid(adjustments)

\* The raw parameter is parsed to a finite number greater than 0.
ParsesPositive(raw) == FactorValid(ParseFloat(StringOf(raw)))

\* The first check that fails, in the order minutes parse, usage parse,
\* minutes bound, usage bound, player statistics, adjustment factors.
FirstFailure(p, raw, a) ==
  IF ~ParsesPositive(raw.projectedMinutes) THEN "minutes parse"
  ELSE IF ~ParsesPositive(raw.usageAdjustment) THEN "usage parse"
  ELSE IF ~WithinBound(raw.projectedMinutes, 48) THEN "minutes bound"
  ELSE IF ~WithinBound(raw.usageAdjustment, 5) THEN "usage bound"
  ELSE IF ~AllSixValid(p) THEN "player statistics"
  ELSE IF ~AllFactorsValid(a) THEN "adjustment factors"
  ELSE "none"

\* The check an error message comes from.
FailureOf(error) ==
  IF error.text = " cannot exceed 48." THEN "minutes bound"
  ELSE IF error.text = " cannot exceed 5.0." THEN "usage bound"
  ELSE IF error.text = "Missing or invalid core player statistics required for calculation."
  THEN "player statistics"
  ELSE IF error.text = "Invalid or missing adjustment factors." THEN "adjustment factors"
  ELSE IF error.field = "Projected Minutes" /\ error.quoted THEN "minutes parse"
  ELSE IF error.field = "Usage Adjustment" /\ error.quoted THEN "usage parse"
  ELSE "none"

\* C13: all validation in calculateTotalProjectedPoints comes before any
\* projection arithmetic, in the order minutes parse, usage parse, minutes
\* bound, usage bound, player statistics, adjustment factors; the first check
\* that fails throws at once: no later check or calculation runs and no
\* result, partial or complete, is returned.
C13_ValidationOrder ==
  /\ pc = "calculate" => FirstFailure(playerData, rawGameParams, adjustments) = "none"
  /\ calculations # NoCalculations => pc \in {"return", "returned"}
  /\ outcome.result # NoResults => pc = "returned"
  /\ pc = "thrown" =>
       /\ FailureOf(outcome.error) = FirstFailure(playerData, rawGameParams, adjustments)
       /\ outcome.status = "thrown"
       /\ FailureOf(outcome.error) = "minutes parse" => locals = NoLocals
       /\ FailureOf(outcome.error) = "usage parse" => locals.usageAdjustment = Undefined

\* The minutes bound was the first of four failing checks.
C13_Witness ==
  /\ pc = "thrown"
  /\ FailureOf(outcome.error) = "minutes bound"
  /\ ~WithinBound(rawGameParams.usageAdjustment, 5)
  /\ ~AllSixValid(playerData)
  /\ ~AllFactorsValid(adjustments)

\* Minutes a call is compared with, and the least difference that counts as
\* an increase of the minutes.
OtherMinutes == {Dec(1, 1), Dec(48, 1), Dec(285, 1), Dec(32, 0), Dec(36, 0), Dec(48, 0)}

MinGap == Dec(1, 3)

PositiveFinite(v) == v.k = "num" /\ v.s = 0 /\ v.m # <<>>

AllFinite(p) == \A f \in FieldNames : p[f].k = "num"

\* What the call would compute at other minutes, all else as it is.
AtMinutes(minutes) ==
  PerformCalculations(playerData, minutes, locals.usageAdjustment, adjustments)

\* From the values c of a call to the values d of the call with more minutes.
NeverDecrease(c, d) ==
  /\ FLe(c.projectedFGA, d.projectedFGA)
  /\ FLe(c.projectedFTA, d.projectedFTA)
  /\ (AllFinite(playerData) /\ FLe(playerData.three_point_attempt_rate, One))
       => FLe(c.totalProjectedPoints, d.totalProjectedPoints)

StrictlyIncrease(c, d) ==
  /\ PositiveFinite(playerData.FGA_36) => FLt(c.projectedFGA, d.projectedFGA)
  /\ PositiveFinite(playerData.FTA_36) => FLt(c.projectedFTA, d.projectedFTA)
  /\ (AllFinite(playerData) /\ FLe(playerData.three_point_attempt_rate, One)
      /\ FGt(c.totalProjectedPoints, FZero(0)))
       => FLt(c.totalProjectedPoints, d.totalProjectedPoints)

\* From the values c of a call to the values d of the call whose minutes are
\* more by gap.
MoreMinutes(c, d, gap) ==
  /\ NeverDecrease(c, d)
  /\ FGe(gap, MinGap) => StrictlyIncrease(c, d)

RateTimesShare(ratePer36, minutes, usage) ==
  FMul(FMul(ratePer36, FDiv(minutes, Dec(36, 0))), usage)

\* C15: when paceAdjustment, dvpFgaFactor and dvpFtaFactor all equal 1.0 the
\* projected field-goal and free-throw attempts equal
\* ratePer36 * (minutes / 36) * usage, and at minutes = 36 and usage = 1 they
\* equal ratePer36 exactly.
C15_NeutralFactorsGiveRate ==
  (pc = "returned" /\ adjustments = NeutralAdjustments) =>
    /\ calculations.projectedFGA =
         RateTimesShare(playerData.FGA_36, locals.projectedMinutes, locals.usageAdjustment)
    /\ calculations.projectedFTA =
         RateTimesShare(playerData.FTA_36, locals.projectedMinutes, locals.usageAdjustment)
    /\ (locals.projectedMinutes = Dec(36, 0) /\ locals.usageAdjustment = One) =>
         /\ calculations.projectedFGA = playerData.FGA_36
         /\ calculations.projectedFTA = playerData.FTA_36

\* A call at 36 minutes and usage 1 with neutral factors and rates that are
\* not round numbers.
C15_Witness ==
  /\ pc = "returned"
  /\ adjustments = NeutralAdjustments
  /\ locals.projectedMinutes = Dec(36, 0)
  /\ locals.usageAdjustment = One
  /\ playerData.FGA_36 = Dec(2445, 2)
  /\ calculations.projectedFGA = Dec(2445, 2)
  /\ calculations.projectedFTA = playerData.FTA_36

\* The orders in which three arguments can be passed.
Orders(u, d, p) ==
  {<<u, d, p>>, <<u, p, d>>, <<d, u, p>>, <<d, p, u>>, <<p, u, d>>, <<p, d, u>>}

Three == Dec(3, 0)

\* 2^-49: the relative error that two chains of five rounded operations can
\* put between two doubles.
RoundingSlack == FRound(0, NatFromInt(1), -49)

Magnitude(x) == [x EXCEPT !.s = 0]

\* x and y are the same up to rounding.
Close(x, y) ==
  \/ x = y
  \/ /\ x.k = "num" /\ y.k = "num"
     /\ FLe(Magnitude(FSub(x, y)), FMul(Magnitude(x), RoundingSlack))

\* Each of the five factors of the field goal attempts, tripled, triples
\* the value, which is `tripled`; the same for the free throw attempts.
EachFactorScalesFGA(r, m, u, d, p, tripled) ==
  /\ Close(calculateProjectedFGA(FMul(Three, r), m, u, d, p), tripled)
  /\ Close(calculateProjectedFGA(r, FMul(Three, m), u, d, p), tripled)
  /\ Close(calculateProjectedFGA(r, m, FMul(Three, u), d, p), tripled)
  /\ Close(calculateProjectedFGA(r, m, u, FMul(Three, d), p), tripled)
  /\ Close(calculateProjectedFGA(r, m, u, d, FMul(Three, p)), tripled)

EachFactorScalesFTA(r, m, u, d, p, tripled) ==
  /\ Close(calculateProjectedFTA(FMul(Three, r), m, u, d, p), tripled)
  /\ Close(calculateProjectedFTA(r, FMul(Three, m), u, d, p), tripled)
  /\ Close(calculateProjectedFTA(r, m, FMul(Three, u), d, p), tripled)
  /\ Close(calculateProjectedFTA(r, m, u, FMul(Three, d), p), tripled)
  /\ Close(calculateProjectedFTA(r, m, u, d, FMul(Three, p)), tripled)

\* C16, as the code has it: projected attempts multiply the per-36 rate,
\* minutes / 36, usage, defense factor and pace once each, in doubles: the
\* value is unchanged up to rounding (a relative 2^-49) under any
\* permutation of the usage, defense and pace arguments, scaling any single
\* factor by k scales the result by k up to rounding (checked for k = 3),
\* projectedFGA uses FGA_36 with dvpFgaFactor and projectedFTA uses FTA_36
\* with dvpFtaFactor, and both share the same minutes, usage and pace.
C16_FiveFactorsOnceEach ==
  pc = "returned" =>
    /\ calculations.projectedFGA =
         calculateProjectedFGA(playerData.FGA_36, locals.projectedMinutes,
                               locals.usageAdjustment, adjustments.dvpFgaFactor,
                               adjustments.paceAdjustment)
    /\ calculations.projectedFTA =
         calculateProjectedFTA(playerData.FTA_36, locals.projectedMinutes,
                               locals.usageAdjustment, adjustments.dvpFtaFactor,
                               adjustments.paceAdjustment)
    /\ \A o \in Orders(locals.usageAdjustment, adjustments.dvpFgaFactor,
                       adjustments.paceAdjustment) :
          Close(calculations.projectedFGA,
                calculateProjectedFGA(playerData.FGA_36, locals.projectedMinutes,
                                      o[1], o[2], o[3]))
    /\ \A o \in Orders(locals.usageAdjustment, adjustments.dvpFtaFactor,
                       adjustments.paceAdjustment) :
          Close(calculations.projectedFTA,
                calculateProjectedFTA(playerData.FTA_36, locals.projectedMinutes,
                                      o[1], o[2], o[3]))
    /\ EachFactorScalesFGA(playerData.FGA_36, locals.projectedMinutes,
                           locals.usageAdjustment, adjustments.dvpFgaFactor,
                           adjustments.paceAdjustment,
                           FMul(Three, calculations.projectedFGA))
    /\ EachFactorScalesFTA(playerData.FTA_36, locals.projectedMinutes,
                           locals.usageAdjustment, adjustments.dvpFtaFactor,
                           adjustments.paceAdjustment,
                           FMul(Three, calculations.projectedFTA))

\* A call whose usage, defense factors and pace all differ from 1 and from
\* each other, and where passing them in another order changes the last bit.
C16_Witness ==
  /\ pc = "returned"
  /\ playerData = ExamplePlayer
  /\ locals.usageAdjustment = Dec(11, 1)
  /\ adjustments = Adjustments(Dec(102, 2), Dec(95, 2), Dec(108, 2))
  /\ calculations.projectedFGA #
       calculateProjectedFGA(playerData.FGA_36, locals.projectedMinutes,
                             adjustments.paceAdjustment, adjustments.dvpFgaFactor,
                             locals.usageAdjustment)
  /\ calculations.projectedFGA # calculations.projectedFTA

\* C16, as stated: the value is unchanged under any permutation of the
\* usage, defense and pace arguments, and scaling any single factor by k
\* scales the result by k.
C16_ExactlyCommutesAndScales ==
  pc = "returned" =>
    /\ \A o \in Orders(locals.usageAdjustment, adjustments.dvpFgaFactor,
                       adjustments.paceAdjustment) :
          calculations.projectedFGA =
            calculateProjectedFGA(playerData.FGA_36, locals.projectedMinutes,
                                  o[1], o[2], o[3])
    /\ \A o \in Orders(locals.usageAdjustment, adjustments.dvpFtaFactor,
                       adjustments.paceAdjustment) :
          calculations.projectedFTA =
            calculateProjectedFTA(playerData.FTA_36, locals.projectedMinutes,
                                  o[1], o[2], o[3])
    /\ calculateProjectedFGA(playerData.FGA_36, locals.projectedMinutes,
                             FMul(Three, locals.usageAdjustment),
                             adjustments.dvpFgaFactor, adjustments.paceAdjustment)
         = FMul(Three, calculations.projectedFGA)
    /\ calculateProjectedFTA(playerData.FTA_36, locals.projectedMinutes,
                             FMul(Three, locals.usageAdjustment),
                             adjustments.dvpFtaFactor, adjustments.paceAdjustment)
         = FMul(Three, calculations.projectedFTA)

RequiredParameters ==
  {"player_name", "opponent_team", "projected_minutes", "usage_adjustment"}

\* The parameter is absent, not a string, or blank.
AbsentOrBlank(value) ==
  \/ value.t = "undefined"
  \/ value.t # "string"
  \/ AllIn(value.chars, 1, Len(value.chars), {" "})

SomeRequiredMissing == \E f \in RequiredParameters : AbsentOrBlank(req.query[f])

\* C17: a GET request in which any of player_name, opponent_team,
\* projected_minutes or usage_adjustment is absent, not a string or blank is
\* answered with status 400, and the handler gets there without reaching the
\* statement that loads the reference data or any player or team lookup.
C17_MissingParameterIs400 ==
  (req.method = "GET" /\ SomeRequiredMissing) =>
    /\ hpc \in {"start", "query", "done"}
    /\ found = NoFound
    /\ pc = "idle"
    /\ hpc = "done" => (res.status = 400 /\ res.sent = 1 /\ res.body.kind = "json")

\* A request without player_name is answered with 400 although the data
\* files cannot be read.
C17_Witness ==
  /\ req.method = "GET"
  /\ req.query.player_name = RawUndefined
  /\ ~files.loads
  /\ hpc = "done"
  /\ res.status = 400
  /\ res.sent = 1

\* The reference data has a player of this name, whatever the case of its
\* letters, and a team of this abbreviation, written in either case.
PlayerKnown ==
  \E i \in 1..Len(files.players) :
     toLowerCase(files.players[i].player) = toLowerCase(req.query.player_name.chars)

TeamKnown ==
  \E i \in 1..Len(files.teams) :
     files.teams[i].team = toUpperCase(req.query.opponent_team.chars)

\* A GET request with its four required parameters, and data that loads.
LookupReached == req.method = "GET" /\ ~SomeRequiredMissing /\ files.loads

StartsWith(str, prefix) ==
  Len(str) >= Len(prefix) /\ SubSeq(str, 1, Len(prefix)) = prefix

\* The handler has sent a single 404 whose error begins as given.
Sent404(beginning) ==
  /\ res.status = 404
  /\ res.sent = 1
  /\ res.body.kind = "json"
  /\ StartsWith(res.body.error, beginning)

\* C18: a GET request with all required parameters present is answered with
\* status 404 when the player is not found or when the opponent team is not
\* found in the reference data; the player lookup is checked first (an
\* unknown player is reported without the team being looked up), and in
\* neither case is the core calculation invoked.
C18_UnknownPlayerOrTeamIs404 ==
  /\ (LookupReached /\ ~PlayerKnown) =>
       /\ hpc \in {"start", "query", "load", "findPlayer", "done"}
       /\ found = NoFound
       /\ pc = "idle"
       /\ hpc = "done" => Sent404(<<"Player \"">>)
  /\ (LookupReached /\ PlayerKnown /\ ~TeamKnown) =>
       /\ hpc \in {"start", "query", "load", "findPlayer", "findTeam", "done"}
       /\ found.opponentTeam = NotFound
       /\ pc = "idle"
       /\ hpc = "done" => Sent404(<<"Opponent team \"">>)

\* Neither the player nor the team is known: the 404 is about the player.
C18_Witness ==
  /\ LookupReached
  /\ ~PlayerKnown
  /\ ~TeamKnown
  /\ hpc = "done"
  /\ Sent404(<<"Player \"">>)
  /\ pc = "idle"

\* The reference data holds both defense factors for the opponent team and
\* the position the handler uses.
HoldsFactors(entry) ==
  entry.dvp_fga_factor.k # "undefined" /\ entry.dvp_fta_factor.k # "undefined"

SpecificFactors ==
  \E i \in 1..Len(files.dvp) :
     /\ files.dvp[i].team = toUpperCase(req.query.opponent_team.chars)
     /\ \E j \in 1..Len(files.dvp[i].defense_vs_position) :
           /\ files.dvp[i].defense_vs_position[j].position = found.positionToUse.chars
           /\ HoldsFactors(files.dvp[i].defense_vs_position[j])

\* C19: for every opponent team and position, the dvpFgaFactor and
\* dvpFtaFactor that the handler passes to the core are both 1.0 whenever the
\* reference data holds no specific defense factors for that pair (team
\* absent, position absent, or the factor values absent), so that missing
\* defense data never makes the core refuse the adjustment factors.
C19_MissingDefenseDataIsNeutral ==
  (hpc \in {"core", "done"} /\ pc # "idle" /\ ~SpecificFactors) =>
    /\ adjustments.dvpFgaFactor = One
    /\ adjustments.dvpFtaFactor = One
    /\ pc = "thrown" => outcome.error.text # "Invalid or missing adjustment factors."

\* C20: calculateTotalProjectedPoints is independent of other invocations:
\* during a call its three input records stay as they were given and nothing
\* outside the call changes, so that a call ends as the function of its
\* inputs alone: as the call before it ended when that one had equal inputs,
\* whatever calls came before.
C20_IndependentOfOtherCalls ==
  /\ history.entered = args
  /\ paceCall = NoPaceCall
  /\ HandlerIdle
  /\ PageLoaded
  /\ pc \in {"returned", "thrown"} =>
       /\ outcome = calculateTotalProjectedPoints(playerData, rawGameParams, adjustments)
       /\ (history.previous.defined /\ history.previous.args = args)
            => outcome = history.previous.outcome

\* A call returns what the call before it returned, having been given the
\* same records again.
C20_Witness ==
  /\ pc = "returned"
  /\ history.previous.defined
  /\ history.previous.args = args
  /\ history.previous.outcome.status = "returned"
  /\ outcome = history.previous.outcome

\* The three-point attempt rate is a number above 1, and nothing else in the
\* call is refused.
RateAboveOne ==
  /\ StatisticValid(playerData.three_point_attempt_rate)
  /\ FGt(playerData.three_point_attempt_rate, One)
  /\ FirstFailure([playerData EXCEPT !.three_point_attempt_rate = FZero(0)],
                  rawGameParams, adjustments) = "none"

\* C21: a non-negative three_point_attempt_rate greater than 1 is accepted:
\* calculateTotalProjectedPoints does not throw and does not clamp it, and
\* returns values that follow the formula: twoPointAttempts is
\* FGA * (1 - rate), rounded, and threePointAttempts FGA * rate, rounded, the
\* points are computed from the same products, and for a positive FGA the
\* first product is negative and the second exceeds FGA.
C21_RateAboveOneAccepted ==
  (Finished /\ RateAboveOne) =>
    /\ pc = "returned"
    /\ outcome.result.attempts.twoPointAttempts =
         RoundTo(FMul(calculations.projectedFGA,
                      FSub(One, playerData.three_point_attempt_rate)), 1)
    /\ outcome.result.attempts.threePointAttempts =
         RoundTo(FMul(calculations.projectedFGA, playerData.three_point_attempt_rate), 1)
    /\ calculations.threePointPoints =
         FMul(FMul(FMul(calculations.projectedFGA, playerData.three_point_attempt_rate),
                   playerData.three_point_percentage), FFromInt(3))
    /\ FGt(calculations.projectedFGA, FZero(0)) =>
         /\ FLt(FMul(calculations.projectedFGA,
                     FSub(One, playerData.three_point_attempt_rate)), FZero(0))
         /\ FGt(FMul(calculations.projectedFGA, playerData.three_point_attempt_rate),
                calculations.projectedFGA)

\* A returned call with a rate of 1.5: negative two-point attempts, and more
\* three-point attempts than field goal attempts.
C21_Witness ==
  /\ pc = "returned"
  /\ playerData.three_point_attempt_rate = Dec(15, 1)
  /\ FLt(outcome.result.attempts.twoPointAttempts, FZero(0))
  /\ FGt(outcome.result.attempts.threePointAttempts, outcome.result.breakdown.projectedFGA)

\* The request gives no position: the parameter is missing or empty.
PositionAbsent ==
  \/ req.query.player_position.t = "undefined"
  \/ req.query.player_position = RawString(<<>>)

\* The position the lookup is to use, for a player that was found.
ExpectedPosition ==
  IF PositionAbsent THEN files.players[found.player.index].position
  ELSE req.query.player_position

\* The handler has answered with the projection.
Answered200 == hpc = "done" /\ res.status = 200 /\ res.body.payload.present

\* C22: when player_position is absent from the request, the position used
\* for the defense-factor lookup, and echoed as inputs.position_used, is the
\* found player's own recorded position; when player_position is supplied,
\* the supplied value is used instead.
C22_PositionFallsBackToRecord ==
  /\ (hpc \in {"findDVP", "callCore", "core"} \/ Answered200) =>
        found.positionToUse = ExpectedPosition
  /\ (hpc \in {"callCore", "core"} \/ Answered200) =>
        found.dvp = findDVP(files.dvp, req.query.opponent_team.chars, ExpectedPosition.chars)
  /\ Answered200 => res.body.payload.inputs.position_used = ExpectedPosition

\* A 200 response for a request that supplies a position other than the one
\* the player is recorded with.
C22_Witness ==
  /\ Answered200
  /\ req.query.player_position = RawString(<<"S", "G">>)
  /\ res.body.payload.player.position = RawString(PG)
  /\ res.body.payload.inputs.position_used = RawString(<<"S", "G">>)
  /\ found.dvp = DefaultDvp

\* The ten numeric fields of a result.
ResultFields(result) ==
  {result.projectedPoints,
   result.breakdown.twoPointers, result.breakdown.threePointers,
   result.breakdown.freeThrows, result.breakdown.projectedFGA,
   result.breakdown.projectedFTA, result.breakdown.paceAdjustment,
   result.attempts.twoPointAttempts, result.attempts.threePointAttempts,
   result.attempts.freeThrowAttempts}

\* C23: whenever calculateTotalProjectedPoints returns rather than throws,
\* every numeric field of the result (projectedPoints, the six breakdown
\* fields and the three attempts fields) is a finite number, never NaN or
\* Infinity.
C23_ResultIsFinite ==
  pc = "returned" => \A v \in ResultFields(outcome.result) : v.k = "num"

\* Rounded fields are doubles next to multiples of 0.1: two of them differ by
\* at most 0.1 when they differ by less than 0.15, by at most 0.2 when by
\* less than 0.25.
AtMostOneTenth == Dec(15, 2)

AtMostTwoTenths == Dec(25, 2)

\* x and y differ by less than the bound.
Within(x, y, bound) == FLt(Magnitude(FSub(x, y)), bound)

SumOfRoundedPoints(result) ==
  FAdd(FAdd(result.breakdown.twoPointers, result.breakdown.threePointers),
       result.breakdown.freeThrows)

SumOfRoundedAttempts(result) ==
  FAdd(result.attempts.twoPointAttempts, result.attempts.threePointAttempts)

\* A successful result for finite statistics with a rate in [0, 1].
RateWithinUnit ==
  /\ pc = "returned"
  /\ AllFinite(playerData)
  /\ FLe(playerData.three_point_attempt_rate, One)

StatusOfMethod ==
  IF req.method = "OPTIONS" THEN res.status = 200 /\ res.body = NoBody
  ELSE IF req.method # "GET" THEN res.status = 405
  ELSE res.status \in {400, 404, 200, 500}

OneResponse ==
  /\ res.sent <= 1
  /\ hpc = "done" <=> res.sent = 1
  /\ hpc = "done" => StatusOfMethod
  /\ Answered200 => pc = "returned"
  /\ (hpc = "done" /\ res.status = 200 /\ req.method = "GET") => Answered200

\* The statements of the handler and of the core in the order of the text;
\* the handler has no loop and no await, it runs from one to a later one.
HandlerOrder ==
  <<"start", "query", "load", "findPlayer", "findTeam", "leaguePace", "position",
    "findDVP", "callCore", "core", "catch", "done">>

CoreOrder ==
  <<"idle", "parseMinutes", "parseUsage", "checkMinutes", "checkUsage", "validatePlayer",
    "validateAdjustments", "calculate", "return", "returned", "thrown">>

PositionIn(order, label) == CHOOSE i \in 1..Len(order) : order[i] = label

Progress == PositionIn(HandlerOrder, hpc) * Len(CoreOrder) + PositionIn(CoreOrder, pc)

\* The handler has not returned and has a statement to run. The statements
\* that parse, compute and round are assignments of total functions behind a
\* test of the label alone; the enabling of all others is evaluated.
HasNextStatement ==
  \/ ENABLED (HandleMethod \/ ValidateQuery \/ LoadData \/ FindPlayer \/ FindTeam
                \/ CheckLeaguePace \/ DeterminePosition \/ LookupDvp \/ CheckMinutes
                \/ CheckUsage \/ ValidatePlayer \/ ValidateAdjustments \/ Respond \/ Catch)
  \/ hpc = "callCore"
  \/ hpc = "core" /\ pc \in {"parseMinutes", "parseUsage", "calculate", "return"}

\* C25: the handler sends exactly one response on every path of every
\* request. No path sends two; none ends without one: until the response is
\* sent there is a next statement, and every statement moves forward in the
\* text. OPTIONS gets 200 with no body, any other non-GET method 405, a GET
\* one of 400, 404, 200 and 500, and 200 is sent only after the core
\* calculation has returned.
C25_ExactlyOneResponse ==
  /\ []OneResponse
  /\ [](hpc # "done" => HasNextStatement)
  /\ [][Progress' > Progress]_vars

C25_Witness ==
  /\ hpc = "done"
  /\ req.method = "GET"
  /\ res.sent = 1
  /\ res.status = 200
  /\ pc = "returned"

\* selectedIndex is -1 or the index of a list item, and at most one item
\* carries the class 'selected'.
SelectionInRange ==
  /\ -1 <= selectedIndex
  /\ selectedIndex <= Len(items) - 1
  /\ Cardinality(selected) <= 1

\* An input event resets selectedIndex, ArrowDown wraps from the last item
\* to the first, ArrowUp from the first item and from no item to the last.
SelectionMoves ==
  /\ (\E term \in Terms : Input(term)) => selectedIndex' = -1
  /\ (ArrowDown /\ selectedIndex = Len(items) - 1) => selectedIndex' = 0
  /\ (ArrowUp /\ selectedIndex \in {-1, 0}) => selectedIndex' = Len(items) - 1

\* C30: after any sequence of input, ArrowDown, ArrowUp, Enter, Escape and
\* click events -1 <= selectedIndex <= (number of list items) - 1; every
\* input event resets it to -1, ArrowDown from the last item wraps to 0,
\* ArrowUp from item 0 or from -1 wraps to the last item, and at most one
\* list item carries the class 'selected'.
C30_SelectedIndexInRange == []SelectionInRange /\ [][SelectionMoves]_vars

\* ArrowUp has wrapped from no selection to the last of three items, after
\* an Enter press and a click.
C30_Witness ==
  /\ Len(items) = 3
  /\ selectedIndex = 2
  /\ selected = {2}
  /\ Len(invocations) > 0
  /\ ~show

\* The invocations of calculateProjection that wait for fetch or for json().
InFlight == {i \in 1..Len(invocations) : invocations[i].at \in {"fetch", "json"}}

\* C26: at most one projection request is in flight at any time, whatever
\* the sequence of button clicks and Enter key events, and a single Enter
\* press starts at most one request.
C26_AtMostOneInFlight ==
  /\ [](Cardinality(InFlight) <= 1)
  /\ [][(\E inField \in BOOLEAN : EnterPress(inField))
          => Cardinality(InFlight') <= Cardinality(InFlight) + 1]_vars

\* C27: #error and #result are never both displayed, and what is displayed
\* belongs to the calculation started last.
C27_ErrorAndResultExclusive ==
  /\ ~(display.error = "block" /\ display.result = "block")
  /\ display.error = "block" => display.errorBy = Len(invocations)
  /\ display.result = "block" => display.resultBy = Len(invocations)

\* A step in which an invocation returns at a client-side check.
RejectedStep ==
  /\ Len(invocations') > Len(invocations)
  /\ \A i \in (Len(invocations) + 1)..Len(invocations') : invocations'[i].at = "rejected"

\* C28: the button is disabled and the spinner shown while a request that
\* passed the client-side checks waits for its response or has it handled;
\* once every invocation has finished the button is enabled; an invocation
\* rejected by the client-side checks does not disable the button.
C28_DisabledWhileWaiting ==
  /\ [](InFlight # {} => display.disabled /\ display.loadingSpinner = "inline")
  /\ [](InFlight = {} => ~display.disabled)
  /\ [][RejectedStep => display'.disabled = display.disabled]_vars

\* The core accepts the game parameters of a request.
CoreAccepts(params) ==
  calculateTotalProjectedPoints(
    ExamplePlayer, GameParams(params.projected_minutes, params.usage_adjustment),
    NeutralAdjustments).status = "returned"

\* C29: the projected minutes and the usage adjustment of every request the
\* page sends pass the validation of calculateTotalProjectedPoints.
C29_SentParametersPassCore ==
  \A i \in 1..Len(invocations) :
    invocations[i].at = "fetch" => CoreAccepts(invocations[i].params)

====
